---- MODULE Spec2Model ----
(***************************************************************************)
(* A model of the Repository Intelligence Engine, src/.repometa/analyzer.py *)
(* (the dependency impact analyzer, the redundancy scanner, the scoring    *)
(* functions, the loading of the manifest) and of the Marketing            *)
(* Coordinator, src/agents/coordinator/main.py.  Each part has a           *)
(* specification of its own below (Spec, SpecImpact, SpecLoad, SpecChain, *)
(* SpecExtract, SpecRedundancy, SpecSimilarity, SpecScoring,               *)
(* SpecComplexity, SpecCoordinator, SpecRouting, SpecAggregate); the       *)
(* variables of the other parts stay at their idle values.                 *)
(*                                                                         *)
(* Python values are modelled as follows.                                  *)
(*   - a list is a sequence; a dict is the sequence of its values in       *)
(*     insertion order (graph: the DependencyNode records, keyed by path); *)
(*   - a path is a natural number (paths are only compared for equality);  *)
(*   - a key a manifest item does not carry is the value NoKey;            *)
(*   - a string built with " | ".join is the sequence of the joined parts; *)
(*   - a similarity is an exact fraction and a threshold an integer: the   *)
(*     float (intersection / union) * 100.0 compares with such a threshold *)
(*     as the fraction does, for the token sets of the model.              *)
(***************************************************************************)
EXTENDS Integers, Sequences, FiniteSets, TLC

VARIABLES
    manifest_path,  \* what is at the manifest path: "missing", "unparseable", "empty" or "yaml"
    manifest,   \* IntelligenceEngine.manifest['structure'] (the yaml being written while phase = "edit")
    phase,      \* "edit": the manifest file is being written; "ready": the engine is constructed;
                \* "failed": its construction raised and main has exited; "off": no engine
    files,      \* IntelligenceEngine.files, the file index
    output,     \* the warnings and errors printed
    graph,      \* the graph of the last _build_dependency_graph call
    report,     \* the dict returned by the last analyze_impact call, or NoReport
    previous,   \* the dict returned by the analyze_impact call before the last, or NoReport
    traced,     \* the last call of _trace_dependency_chain and the chain it returned, or NoChain
    bfs,        \* the frame of a running _calculate_failure_impact call
    fenced,     \* the contents of the fenced blocks of the markdown file given to _extract_code_blocks alone
    all_blocks, \* scan_redundancies: the code blocks extracted from the markdown files
    similarity_threshold,   \* scan_redundancies: its argument
    clusters,   \* the clusters of the last _cluster_similar_blocks call, each a list of positions in all_blocks
    redundancy, \* the dict returned by the last scan_redundancies call, or NoReport
    similarities,   \* the similarity_to calls made on all_blocks: <<i, j, what block i returned for block j>>
    args,       \* the arguments of a call of a scoring function
    results,    \* what the scoring functions returned for args
    specialized_agents, \* MarketingCoordinator.specialized_agents: for each name the agent registered, or NoAgent
    delegation_history, \* MarketingCoordinator.delegation_history
    results_history,    \* MarketingCoordinator.results_history
    executed,   \* the names of the agents whose execute ran in the last call of the coordinator, in order
    returned    \* what the last call of the coordinator returned, or NoCall

vars == <<manifest_path, manifest, phase, files, output, graph, report, previous, traced, bfs,
          fenced, all_blocks, similarity_threshold, clusters, redundancy, similarities,
          args, results,
          specialized_agents, delegation_history, results_history, executed, returned>>

impact_vars ==
    <<manifest_path, manifest, phase, files, output, graph, report, previous, traced, bfs>>
redundancy_vars ==
    <<fenced, all_blocks, similarity_threshold, clusters, redundancy, similarities>>
scoring_vars == <<args, results>>
coordinator_vars ==
    <<specialized_agents, delegation_history, results_history, executed, returned>>

(***************************************************************************)
(* Bounds of the model.                                                    *)
(***************************************************************************)
MaxItems == 3        \* items of a manifest written in the edit phase
MaxEdges == 3        \* connects_to entries of such a manifest, all items together
MaxSpokes == 5       \* items of a hub-and-spoke manifest besides its two hubs
MaxBlocks == 4       \* code blocks of one scan
MaxCount == 12       \* impact counts and dependents given to the scoring functions
MaxLoaded == 2       \* items of a manifest found at the manifest path
MaxDelegations == 2  \* entries of delegation_history
MaxResults == 1      \* entries of results_history
MaxWords == 4        \* words of a request given to determine_delegation alone
MaxAggregated == 3   \* results given to aggregate_results alone
MaxChainEdges == 4   \* connects_to entries of a graph given to _trace_dependency_chain alone
MaxFenced == 3       \* fenced blocks of a markdown file given to _extract_code_blocks alone

NoKey == "<no key>"
NoReport == [returned |-> FALSE]
NoChain == [called |-> FALSE]
NoArgs == [importance |-> NoKey]
NoResults == [severity |-> {}, score |-> <<>>, mitigation |-> <<>>]

Paths == 1..MaxItems

(***************************************************************************)
(* DependencyNode, analyzer.py lines 73-94.                                *)
(***************************************************************************)
blast_radius(node) == Len(node.dependents)

importance_scores(importance) ==
    CASE importance = "critical" -> 100
      [] importance = "high" -> 75
      [] importance = "medium" -> 50
      [] importance = "low" -> 25
      [] OTHER -> 50

Min(a, b) == IF a <= b THEN a ELSE b

\* A slip: the sum is not capped at 100.
criticality_score_uncapped(node) ==
    importance_scores(node.importance) + Min(blast_radius(node) * 5, 50)

criticality_score(node) ==
    LET base_score == importance_scores(node.importance)
        dependency_factor == Min(blast_radius(node) * 5, 50)
    IN  Min(base_score + dependency_factor, 100)

(***************************************************************************)
(* _build_dependency_graph, analyzer.py lines 348-368.                     *)
(***************************************************************************)
\* The position of key path in the dict g, 0 when it is not a key.
DictIndex(g, path) ==
    IF \E k \in 1..Len(g) : g[k].path = path
    THEN CHOOSE k \in 1..Len(g) : g[k].path = path
    ELSE 0

\* graph[path] = node: a new key goes last, a known key keeps its place.
DictSet(g, node) ==
    LET k == DictIndex(g, node.path)
    IN  IF k = 0 THEN Append(g, node) ELSE [g EXCEPT ![k] = node]

\* A slip: a node starts with the dependents it had in the graph of the call
\* before.
DependencyNode_kept(item) ==
    [path |-> item.path,
     importance |-> IF item.importance = NoKey THEN "medium" ELSE item.importance,
     dependencies |-> item.connects_to,
     dependents |-> IF DictIndex(graph, item.path) # 0
                    THEN graph[DictIndex(graph, item.path)].dependents ELSE <<>>,
     external_deps |-> item.dependencies]

\* DependencyNode(path=..., importance=item.get('importance', 'medium'), ...)
DependencyNode(item) ==
    [path |-> item.path,
     importance |-> IF item.importance = NoKey THEN "medium" ELSE item.importance,
     dependencies |-> item.connects_to,
     dependents |-> <<>>,
     external_deps |-> item.dependencies]

\* The first loop: one node per item, in the order of the manifest.
RECURSIVE CreateNodes(_, _)
CreateNodes(items, g) ==
    IF items = <<>> THEN g
    ELSE CreateNodes(Tail(items), DictSet(g, DependencyNode(Head(items))))

\* A slip: the edge is recorded at its source, not at its target.
AppendDependent_at_source(g, k, path) ==
    [g EXCEPT ![DictIndex(g, path)].dependents = Append(@, g[k].path)]

\* graph[dep].dependents.append(path)
AppendDependent(g, k, path) == [g EXCEPT ![k].dependents = Append(@, path)]

\* The second loop: node i of the dict, entry j of its dependencies.
RECURSIVE ReverseDependencies(_, _, _)
ReverseDependencies(g, i, j) ==
    IF i > Len(g) THEN g
    ELSE IF j > Len(g[i].dependencies) THEN ReverseDependencies(g, i + 1, 1)
    ELSE LET k == DictIndex(g, g[i].dependencies[j])
         IN  IF k # 0
             THEN ReverseDependencies(AppendDependent(g, k, g[i].path), i, j + 1)
             ELSE ReverseDependencies(g, i, j + 1)

build_dependency_graph(items) == ReverseDependencies(CreateNodes(items, <<>>), 1, 1)

(***************************************************************************)
(* _impact_severity, analyzer.py lines 395-404.                            *)
(***************************************************************************)
\* A slip: the first test asks for more than 5.
impact_severity_above(impact_count, importance) ==
    IF importance = "critical" /\ impact_count > 5 THEN "CATASTROPHIC"
    ELSE IF importance = "critical" \/ impact_count >= 10 THEN "SEVERE"
    ELSE IF impact_count >= 5 THEN "MODERATE"
    ELSE "LOW"

\* A slip: the last test is turned around.
impact_severity_turned(impact_count, importance) ==
    IF importance = "critical" /\ impact_count >= 5 THEN "CATASTROPHIC"
    ELSE IF importance = "critical" \/ impact_count >= 10 THEN "SEVERE"
    ELSE IF impact_count <= 5 THEN "MODERATE"
    ELSE "LOW"

impact_severity(impact_count, importance) ==
    IF importance = "critical" /\ impact_count >= 5 THEN "CATASTROPHIC"
    ELSE IF importance = "critical" \/ impact_count >= 10 THEN "SEVERE"
    ELSE IF impact_count >= 5 THEN "MODERATE"
    ELSE "LOW"

(***************************************************************************)
(* _calculate_failure_impact, analyzer.py lines 370-393.                   *)
(***************************************************************************)
\* A slip: the traversal follows dependencies, the declared direction.
Enqueued_dependencies(g, current, visited) ==
    LET k == DictIndex(g, current)
    IN  IF k = 0 THEN <<>>
        ELSE SelectSeq(g[k].dependencies, LAMBDA d : d \notin visited)

\* The dependents of current the loop enqueues: those not visited yet.
Enqueued(g, current, visited) ==
    LET k == DictIndex(g, current)
    IN  IF k = 0 THEN <<>>
        ELSE SelectSeq(g[k].dependents, LAMBDA d : d \notin visited)

\* One iteration of the while loop on the frame s = [visited, queue].
bfs_iteration(g, s) ==
    LET current == Head(s.queue)
        rest == Tail(s.queue)
    IN  IF current \in s.visited
        THEN [visited |-> s.visited, queue |-> rest]
        ELSE LET visited == s.visited \cup {current}
             IN  [visited |-> visited, queue |-> rest \o Enqueued(g, current, visited)]

RECURSIVE bfs_visited(_, _)
bfs_visited(g, s) ==
    IF s.queue = <<>> THEN s.visited ELSE bfs_visited(g, bfs_iteration(g, s))

failure_impact_of(node, visited) ==
    LET total_impacted == Cardinality(visited) - 1
    IN  [direct_impact |-> Len(node.dependents),
         total_impact |-> total_impacted,
         severity |-> impact_severity(total_impacted, node.importance)]

calculate_failure_impact(node, g) ==
    failure_impact_of(node, bfs_visited(g, [visited |-> {}, queue |-> <<node.path>>]))

(***************************************************************************)
(* _suggest_mitigation, analyzer.py lines 406-419.                         *)
(***************************************************************************)
Contains(seq, x) == \E i \in 1..Len(seq) : seq[i] = x

Entries(seq) == {seq[j] : j \in 1..Len(seq)}

\* A slip: the check of the importance comes first.
suggest_mitigation_reordered(node) ==
    LET strategies ==
            (IF node.importance = "critical"
             THEN <<"Set up redundancy/failover">> ELSE <<>>)
         \o (IF blast_radius(node) >= 5
             THEN <<"Implement circuit breaker pattern">> ELSE <<>>)
         \o (IF Contains(node.external_deps, "BigQuery")
             THEN <<"Add caching layer">> ELSE <<>>)
    IN  IF strategies # <<>> THEN strategies ELSE <<"Monitor closely">>

suggest_mitigation(node) ==
    LET strategies ==
            (IF blast_radius(node) >= 5
             THEN <<"Implement circuit breaker pattern">> ELSE <<>>)
         \o (IF Contains(node.external_deps, "BigQuery")
             THEN <<"Add caching layer">> ELSE <<>>)
         \o (IF node.importance = "critical"
             THEN <<"Set up redundancy/failover">> ELSE <<>>)
    IN  IF strategies # <<>> THEN strategies ELSE <<"Monitor closely">>

(***************************************************************************)
(* _trace_dependency_chain and _find_critical_paths, lines 421-460.        *)
(***************************************************************************)
RECURSIVE trace_dependency_chain(_, _, _)
RECURSIVE LongestSubchain(_, _, _, _)

\* A slip: a sub-chain as long as the longest one so far replaces it.
RECURSIVE LongestSubchain_last_kept(_, _, _, _)
LongestSubchain_last_kept(deps, g, visited, longest_subchain) ==
    IF deps = <<>> THEN longest_subchain
    ELSE LET subchain == trace_dependency_chain(Head(deps), g, visited)
         IN  LongestSubchain_last_kept(Tail(deps), g, visited,
                 IF Len(subchain) >= Len(longest_subchain)
                 THEN subchain ELSE longest_subchain)

\* The for loop over node.dependencies: a sub-chain replaces the longest one
\* so far only when it is strictly longer.
LongestSubchain(deps, g, visited, longest_subchain) ==
    IF deps = <<>> THEN longest_subchain
    ELSE LET subchain == trace_dependency_chain(Head(deps), g, visited)
         IN  LongestSubchain(Tail(deps), g, visited,
                 IF Len(subchain) > Len(longest_subchain)
                 THEN subchain ELSE longest_subchain)

\* A slip: the chain follows the dependents of a node, not its dependencies.
trace_dependency_chain_over_dependents(start, g, visited) ==
    IF start \in visited \/ DictIndex(g, start) = 0 THEN <<>>
    ELSE LET node == g[DictIndex(g, start)]
         IN  <<start>> \o LongestSubchain(node.dependents, g,
                                          visited \cup {start}, <<>>)

trace_dependency_chain(start, g, visited) ==
    IF start \in visited \/ DictIndex(g, start) = 0 THEN <<>>
    ELSE LET node == g[DictIndex(g, start)]
         IN  <<start>> \o LongestSubchain(node.dependencies, g,
                                          visited \cup {start}, <<>>)

\* A slip: an entry goes before the entries of its key, so that equal keys
\* come out in the reverse of their order.
RECURSIVE SortedDesc_ties_reversed(_, _)
SortedDesc_ties_reversed(keyed, acc) ==
    IF keyed = <<>> THEN [i \in 1..Len(acc) |-> acc[i].value]
    ELSE LET x == Head(keyed)
             p == Cardinality({i \in 1..Len(acc) : acc[i].key > x.key})
         IN  SortedDesc_ties_reversed(Tail(keyed),
                 SubSeq(acc, 1, p) \o <<x>> \o SubSeq(acc, p + 1, Len(acc)))

\* sorted(..., key=..., reverse=True) on the list keyed of [key, value]
\* records: stable, equal keys keep their order.
RECURSIVE SortedDesc(_, _)
SortedDesc(keyed, acc) ==
    IF keyed = <<>> THEN [i \in 1..Len(acc) |-> acc[i].value]
    ELSE LET x == Head(keyed)
             p == Cardinality({i \in 1..Len(acc) : acc[i].key >= x.key})
         IN  SortedDesc(Tail(keyed),
                 SubSeq(acc, 1, p) \o <<x>> \o SubSeq(acc, p + 1, Len(acc)))

Take(seq, n) == SubSeq(seq, 1, Min(n, Len(seq)))

ByLength(paths) ==
    [i \in 1..Len(paths) |-> [key |-> paths[i].length, value |-> paths[i]]]

\* A slip: a chain is traced from every node, whatever it depends on.
RECURSIVE CriticalPathsFrom_every_node(_, _)
CriticalPathsFrom_every_node(g, i) ==
    IF i > Len(g) THEN <<>>
    ELSE LET node == g[i]
             chain == trace_dependency_chain(node.path, g, {})
             risk == IF \E k \in 1..Len(chain) :
                            /\ DictIndex(g, chain[k]) # 0
                            /\ g[DictIndex(g, chain[k])].importance = "critical"
                     THEN "High" ELSE "Medium"
         IN  (IF Len(chain) >= 3
              THEN <<[chain |-> chain, length |-> Len(chain), risk |-> risk]>>
              ELSE <<>>) \o CriticalPathsFrom_every_node(g, i + 1)

RECURSIVE CriticalPathsFrom(_, _)
CriticalPathsFrom(g, i) ==
    IF i > Len(g) THEN <<>>
    ELSE LET node == g[i]
             chain == trace_dependency_chain(node.path, g, {})
             risk == IF \E k \in 1..Len(chain) :
                            /\ DictIndex(g, chain[k]) # 0
                            /\ g[DictIndex(g, chain[k])].importance = "critical"
                     THEN "High" ELSE "Medium"
         IN  (IF node.dependencies = <<>> /\ Len(chain) >= 3
              THEN <<[chain |-> chain, length |-> Len(chain), risk |-> risk]>>
              ELSE <<>>) \o CriticalPathsFrom(g, i + 1)

find_critical_paths(g) == Take(SortedDesc(ByLength(CriticalPathsFrom(g, 1)), <<>>), 5)

(***************************************************************************)
(* analyze_impact, analyzer.py lines 303-346.                              *)
(***************************************************************************)
component_impact(node, g) ==
    [path |-> node.path,
     importance |-> node.importance,
     criticality_score |-> criticality_score(node),
     blast_radius |-> blast_radius(node),
     direct_dependents |-> node.dependents,
     external_dependencies |-> node.external_deps,
     failure_impact |-> calculate_failure_impact(node, g)]

single_point_of_failure(node) ==
    [component |-> node.path,
     reason |-> blast_radius(node),
     mitigation |-> suggest_mitigation(node)]

\* A slip: a node needs more than 5 dependents to be flagged.
is_single_point_of_failure_above(node) ==
    blast_radius(node) > 5 /\ node.importance = "critical"

is_single_point_of_failure(node) ==
    blast_radius(node) >= 5 /\ node.importance = "critical"

\* The for loop over the nodes in the sorted order.
RECURSIVE ImpactLoop(_, _, _)
ImpactLoop(nodes, g, impact_analysis) ==
    IF nodes = <<>> THEN impact_analysis
    ELSE LET node == Head(nodes)
         IN  ImpactLoop(Tail(nodes), g,
                 [impact_analysis EXCEPT
                     !.components = Append(@, component_impact(node, g)),
                     !.single_points_of_failure =
                         IF is_single_point_of_failure(node)
                         THEN Append(@, single_point_of_failure(node)) ELSE @])

ByCriticality(g) ==
    [i \in 1..Len(g) |-> [key |-> criticality_score(g[i]), value |-> g[i]]]

analyze_impact(g) ==
    LET looped == ImpactLoop(SortedDesc(ByCriticality(g), <<>>), g,
                      [critical_paths |-> <<>>,
                       single_points_of_failure |-> <<>>,
                       components |-> <<>>])
    IN  [looped EXCEPT !.critical_paths = find_critical_paths(g)]

(***************************************************************************)
(* CodeBlock, analyzer.py lines 33-70.  A content is the list of its lines *)
(* (content.split('\n')), a line the list of its words; the word "#"       *)
(* starts a comment that runs to the end of the line.  Whitespace and      *)
(* <!-- --> comments, which _tokenize removes as well, are not in the      *)
(* contents of the model.                                                  *)
(***************************************************************************)
\* str.lower() on the words of the model.
Lower(word) ==
    CASE word = "X" -> "x"
      [] word = "Y" -> "y"
      [] word = "Launch" -> "launch"
      [] word = "LAUNCH" -> "launch"
      [] word = "Predict" -> "predict"
      [] word = "ROI" -> "roi"
      [] OTHER -> word

\* re.sub(r'#.*$', '', text, flags=re.MULTILINE) on one line.
RECURSIVE StripComment(_)
StripComment(line) ==
    IF line = <<>> \/ Head(line) = "#" THEN <<>>
    ELSE <<Head(line)>> \o StripComment(Tail(line))

\* _tokenize: the words left, lower-cased, in their order.
RECURSIVE tokenize(_)
tokenize(content) ==
    IF content = <<>> THEN <<>>
    ELSE LET line == StripComment(Head(content))
         IN  [i \in 1..Len(line) |-> Lower(line[i])] \o tokenize(Tail(content))

\* hashlib.md5(code_content.encode()).hexdigest(): equal for equal contents,
\* and taken to differ for the different contents of the model.
Md5(content) == content

\* len(content.split('\n'))
LineCount(content) == Len(content)

\* A similarity is the fraction num / den of a percentage: 100.0 is 100 / 1.
Percent(num, den) == [num |-> num, den |-> den]

\* A slip: the shared tokens are counted against the tokens of self alone.
similarity_to_of_self(self, other) ==
    IF self.hash_value = other.hash_value THEN Percent(100, 1)
    ELSE LET self_tokens == Entries(tokenize(self.content))
             other_tokens == Entries(tokenize(other.content))
             intersection == Cardinality(self_tokens \cap other_tokens)
         IN  IF self_tokens = {} /\ other_tokens = {} THEN Percent(100, 1)
             ELSE IF self_tokens = {} \/ other_tokens = {} THEN Percent(0, 1)
             ELSE Percent(intersection * 100, Cardinality(self_tokens))

\* A slip: the test for two empty token sets is missing.
similarity_to_empty_first(self, other) ==
    IF self.hash_value = other.hash_value THEN Percent(100, 1)
    ELSE LET self_tokens == Entries(tokenize(self.content))
             other_tokens == Entries(tokenize(other.content))
             intersection == Cardinality(self_tokens \cap other_tokens)
             union == Cardinality(self_tokens \cup other_tokens)
         IN  IF self_tokens = {} \/ other_tokens = {} THEN Percent(0, 1)
             ELSE Percent(intersection * 100, union)

similarity_to(self, other) ==
    IF self.hash_value = other.hash_value THEN Percent(100, 1)
    ELSE LET self_tokens == Entries(tokenize(self.content))
             other_tokens == Entries(tokenize(other.content))
             intersection == Cardinality(self_tokens \cap other_tokens)
             union == Cardinality(self_tokens \cup other_tokens)
         IN  IF self_tokens = {} /\ other_tokens = {} THEN Percent(100, 1)
             ELSE IF self_tokens = {} \/ other_tokens = {} THEN Percent(0, 1)
             ELSE Percent(intersection * 100, union)

(***************************************************************************)
(* _cluster_similar_blocks, analyzer.py lines 230-256.  A cluster is the   *)
(* list of the positions of its blocks in the list given.                  *)
(***************************************************************************)
\* A slip: a block as similar as the threshold asks is left out.
meets_threshold_strictly(similarity, threshold) ==
    similarity.num > threshold * similarity.den

\* similarity >= threshold
meets_threshold(similarity, threshold) ==
    similarity.num >= threshold * similarity.den

\* A slip: the block joins the cluster and is not marked.
mark_used_forgotten(used_indices, j) == used_indices

\* used_indices.add(j)
mark_used(used_indices, j) == used_indices \cup {j}

\* A slip: a cluster of one block is kept.
keep_cluster_of_one(cluster) == Len(cluster) >= 1

\* len(cluster) >= 2
keep_cluster(cluster) == Len(cluster) >= 2

\* The inner loop, from position j on, for the representative at position i.
RECURSIVE InnerLoop(_, _, _, _, _, _)
InnerLoop(blocks, threshold, i, j, cluster, used_indices) ==
    IF j > Len(blocks) THEN [cluster |-> cluster, used_indices |-> used_indices]
    ELSE IF j \in used_indices
         THEN InnerLoop(blocks, threshold, i, j + 1, cluster, used_indices)
    ELSE IF meets_threshold(similarity_to(blocks[i], blocks[j]), threshold)
         THEN InnerLoop(blocks, threshold, i, j + 1,
                        Append(cluster, j), mark_used(used_indices, j))
    ELSE InnerLoop(blocks, threshold, i, j + 1, cluster, used_indices)

\* The outer loop, from position i on.
RECURSIVE OuterLoop(_, _, _, _, _)
OuterLoop(blocks, threshold, i, found, used_indices) ==
    IF i > Len(blocks) THEN found
    ELSE IF i \in used_indices
         THEN OuterLoop(blocks, threshold, i + 1, found, used_indices)
    ELSE LET inner == InnerLoop(blocks, threshold, i, i + 1,
                                <<i>>, used_indices \cup {i})
         IN  OuterLoop(blocks, threshold, i + 1,
                       IF keep_cluster(inner.cluster)
                       THEN Append(found, inner.cluster) ELSE found,
                       inner.used_indices)

cluster_similar_blocks(blocks, threshold) == OuterLoop(blocks, threshold, 1, <<>>, {})

(***************************************************************************)
(* _generate_redundancy_report and _generate_consolidation_recommendation, *)
(* analyzer.py lines 258-297.                                              *)
(***************************************************************************)
RECURSIVE SumSeq(_)
SumSeq(seq) == IF seq = <<>> THEN 0 ELSE Head(seq) + SumSeq(Tail(seq))

\* block_sizes = [len(cluster[0].content.split('\n')) for _ in cluster]
block_sizes(blocks, cluster) ==
    [k \in 1..Len(cluster) |-> LineCount(blocks[cluster[1]].content)]

potential_savings(blocks, cluster) ==
    LET sizes == block_sizes(blocks, cluster)
    IN  IF sizes # <<>> THEN SumSeq(sizes) - sizes[1] ELSE 0

generate_consolidation_recommendation(blocks, cluster) ==
    LET file_set == {blocks[cluster[k]].file_path : k \in 1..Len(cluster)}
    IN  IF Cardinality(file_set) = 1
        THEN [advice |-> "consider extracting to reusable function",
              file |-> CHOOSE f \in file_set : TRUE]
        ELSE [advice |-> "consider creating shared module",
              file_count |-> Cardinality(file_set)]

cluster_info(blocks, found, i) ==
    LET cluster == found[i]
    IN  [cluster_id |-> i,
         block_count |-> Len(cluster),
         locations |-> [k \in 1..Len(cluster) |->
             [file |-> blocks[cluster[k]].file_path,
              lines |-> <<blocks[cluster[k]].start_line, blocks[cluster[k]].end_line>>,
              size |-> LineCount(blocks[cluster[k]].content)]],
         potential_savings_lines |-> potential_savings(blocks, cluster),
         recommendation |-> generate_consolidation_recommendation(blocks, cluster)]

generate_redundancy_report(blocks, found) ==
    [total_clusters |-> Len(found),
     total_duplicate_blocks |-> SumSeq([i \in 1..Len(found) |-> Len(found[i])]),
     clusters |-> [i \in 1..Len(found) |-> cluster_info(blocks, found, i)]]

(***************************************************************************)
(* ComplexityMetrics.needs_refactoring, lines 119-125, and                 *)
(* _calculate_complexity_score, lines 688-698.  A score is an exact        *)
(* fraction [num, den], kept in lowest terms.                              *)
(***************************************************************************)
RECURSIVE Gcd(_, _)
Gcd(a, b) == IF b = 0 THEN a ELSE Gcd(b, a % b)

Reduced(num, den) ==
    LET g == Gcd(num, den)
    IN  Percent(num \div g, den \div g)

\* (count / per) * points
Share(count, per, points) == Reduced(count * points, per)

\* min(score, cap) for a fraction and an integer
MinOf(score, cap) == IF score.num <= cap * score.den THEN score ELSE Percent(cap, 1)

Plus(a, b) == Reduced(a.num * b.den + b.num * a.den, a.den * b.den)

\* A slip: the score of the lines is not capped.
calculate_complexity_score_lines_uncapped(lines, functions, classes, imports) ==
    LET line_score == Share(lines, 1000, 50)
        function_score == MinOf(Share(functions, 30, 20), 20)
        class_score == MinOf(Share(classes, 50, 20), 20)
        import_score == MinOf(Share(imports, 20, 10), 10)
        total == Plus(Plus(line_score, function_score), Plus(class_score, import_score))
    IN  MinOf(total, 100)

calculate_complexity_score(lines, functions, classes, imports) ==
    LET line_score == MinOf(Share(lines, 1000, 50), 50)
        function_score == MinOf(Share(functions, 30, 20), 20)
        class_score == MinOf(Share(classes, 50, 20), 20)
        import_score == MinOf(Share(imports, 20, 10), 10)
        total == Plus(Plus(line_score, function_score), Plus(class_score, import_score))
    IN  MinOf(total, 100)

needs_refactoring(self) ==
    \/ self.line_count > 500
    \/ self.complexity_score.num > 70 * self.complexity_score.den
    \/ self.function_count > 30

(***************************************************************************)
(* MarketingCoordinator, src/agents/coordinator/main.py.  None is the      *)
(* record None and any other value v of an Optional field is Some(v).      *)
(***************************************************************************)
None == [none |-> TRUE]
Some(value) == [none |-> FALSE, value |-> value]

NoAgent == "<no agent>"
NoCall == [call |-> "none"]

\* The agents determine_delegation routes to, in the order of its tests.
AgentOrder ==
    <<"data_intelligence", "predictive_insights", "content_generation",
      "campaign_design", "performance_optimization">>

AgentNames == Entries(AgentOrder)

\* The keyword lists of determine_delegation, lines 152-187.
Keywords(agent) ==
    CASE agent = "data_intelligence" ->
             {"data", "customers", "segment", "analyze", "trend"}
      [] agent = "predictive_insights" ->
             {"predict", "score", "churn", "lifetime value", "clv"}
      [] agent = "content_generation" ->
             {"create", "write", "generate", "content", "email", "ad"}
      [] agent = "campaign_design" ->
             {"campaign", "launch", "ads", "advertising"}
      [] agent = "performance_optimization" ->
             {"performance", "optimize", "results", "roi"}

\* kw in word, for a lower-case word of the model and the keywords and
\* 'budget': the test is a substring test, so 'leads' holds 'ad' and 'ads'.
KeywordsIn(word) ==
    CASE word = "launch" -> {"launch"}
      [] word = "campaign" -> {"campaign"}
      [] word = "budget" -> {"budget"}
      [] word = "customers" -> {"customers"}
      [] word = "leads" -> {"ad", "ads"}
      [] word = "predict" -> {"predict"}
      [] word = "roi" -> {"roi"}
      [] OTHER -> {}

\* kw in request_lower: a request is the list of its words, joined by single
\* spaces; 'lifetime value' is the one keyword that runs over a space.
In(kw, request_lower) ==
    IF kw = "lifetime value"
    THEN \E i \in 1..(Len(request_lower) - 1) :
             request_lower[i] = "lifetime" /\ request_lower[i + 1] = "value"
    ELSE \E i \in 1..Len(request_lower) : kw \in KeywordsIn(request_lower[i])

\* any(kw in request_lower for kw in [...])
AnyKeyword(agent, request_lower) ==
    \E kw \in Keywords(agent) : In(kw, request_lower)

DelegationDecision(target_agent, task_description, parameters, requires_human_approval, approval_reason) ==
    [target_agent |-> target_agent,
     task_description |-> task_description,
     parameters |-> parameters,
     requires_human_approval |-> requires_human_approval,
     approval_reason |-> approval_reason]

\* The decisions the keyword tests of determine_delegation append, lines
\* 146-192; a dict of parameters is the list of its <<key, value>> items.
keyword_decisions(user_request) ==
    LET request_lower == [i \in 1..Len(user_request) |-> Lower(user_request[i])]
        requires_approval == In("launch", request_lower) \/ In("budget", request_lower)
    IN
            (IF AnyKeyword("data_intelligence", request_lower)
             THEN <<DelegationDecision("data_intelligence",
                        <<"Analyze data for: ", user_request>>,
                        << <<"query", user_request>> >>, FALSE, None)>>
             ELSE <<>>)
         \o (IF AnyKeyword("predictive_insights", request_lower)
             THEN <<DelegationDecision("predictive_insights",
                        <<"Generate predictions for: ", user_request>>,
                        << <<"prediction_type", <<"auto">> >>, <<"query", user_request>> >>,
                        FALSE, None)>>
             ELSE <<>>)
         \o (IF AnyKeyword("content_generation", request_lower)
             THEN <<DelegationDecision("content_generation",
                        <<"Generate content for: ", user_request>>,
                        << <<"content_request", user_request>> >>, FALSE, None)>>
             ELSE <<>>)
         \o (IF AnyKeyword("campaign_design", request_lower)
             THEN <<DelegationDecision("campaign_design",
                        <<"Design campaign for: ", user_request>>,
                        << <<"campaign_request", user_request>> >>, requires_approval,
                        Some("Campaign launch requires human approval"))>>
             ELSE <<>>)
         \o (IF AnyKeyword("performance_optimization", request_lower)
             THEN <<DelegationDecision("performance_optimization",
                        <<"Analyze performance for: ", user_request>>,
                        << <<"analysis_request", user_request>> >>, FALSE, None)>>
             ELSE <<>>)

\* The decision appended when the keyword tests appended none, lines 195-200.
general_query(user_request) ==
    DelegationDecision("data_intelligence", <<"General query: ", user_request>>,
        << <<"query", user_request>> >>, FALSE, None)

\* A slip: the general query is appended whether or not a keyword matched.
decisions_for_general_always(user_request) ==
    keyword_decisions(user_request) \o <<general_query(user_request)>>

\* The decisions determine_delegation returns, lines 146-205.
decisions_for(user_request) ==
    LET decisions == keyword_decisions(user_request)
    IN  IF decisions # <<>> THEN decisions
        ELSE <<general_query(user_request)>>

AgentResult(agent_name, task, success, result, error) ==
    [agent_name |-> agent_name, task |-> task, success |-> success,
     result |-> result, error |-> error]

\* str(value) inside an f-string, for an Optional[str]
Str(optional) == IF optional.none THEN "None" ELSE optional.value

\* self.specialized_agents.get(name)
Get(agents, name) == IF name \in DOMAIN agents THEN agents[name] ELSE NoAgent

\* agent.execute(**decision.parameters) for an agent of the kind given: a
\* dict is returned, an empty dict is returned, or an Exception is raised.
AgentKinds == {"returns", "returns_empty", "raises"}

agent_execute(kind, name) ==
    CASE kind = "returns" -> [raised |-> FALSE, result |-> << <<"insight", name>> >>]
      [] kind = "returns_empty" -> [raised |-> FALSE, result |-> <<>>]
      [] kind = "raises" -> [raised |-> TRUE, text |-> "execute failed"]

\* A slip: the approval check comes after the agent has run.
execute_delegation_approval_late(agents, decision) ==
    LET agent == Get(agents, decision.target_agent)
        done == agent_execute(agent, decision.target_agent)
        blocked == AgentResult(decision.target_agent, decision.task_description, FALSE, None,
                       Some(<<"Human approval required: ", Str(decision.approval_reason)>>))
    IN  IF agent = NoAgent
        THEN [result |-> IF decision.requires_human_approval THEN blocked
                         ELSE AgentResult(decision.target_agent, decision.task_description,
                                  FALSE, None,
                                  Some(<<"Agent '", decision.target_agent, "' not registered">>)),
              executed |-> <<>>, recorded |-> <<>>]
        ELSE IF done.raised
        THEN [result |-> AgentResult(decision.target_agent, decision.task_description,
                              FALSE, None, Some(<<done.text>>)),
              executed |-> <<decision.target_agent>>, recorded |-> <<>>]
        ELSE LET agent_result == AgentResult(decision.target_agent,
                                     decision.task_description, TRUE,
                                     Some(done.result), None)
             IN  [result |-> IF decision.requires_human_approval THEN blocked
                             ELSE agent_result,
                  executed |-> <<decision.target_agent>>,
                  recorded |-> <<agent_result>>]

\* A slip: the result for an agent that is not registered is recorded.
execute_delegation_recording_failure(agents, decision) ==
    LET agent == Get(agents, decision.target_agent)
        done == agent_execute(agent, decision.target_agent)
        not_registered == AgentResult(decision.target_agent, decision.task_description,
                              FALSE, None,
                              Some(<<"Agent '", decision.target_agent, "' not registered">>))
    IN  IF decision.requires_human_approval
        THEN [result |-> AgentResult(decision.target_agent, decision.task_description,
                              FALSE, None,
                              Some(<<"Human approval required: ",
                                     Str(decision.approval_reason)>>)),
              executed |-> <<>>, recorded |-> <<>>]
        ELSE IF agent = NoAgent
        THEN [result |-> not_registered, executed |-> <<>>, recorded |-> <<not_registered>>]
        ELSE IF done.raised
        THEN [result |-> AgentResult(decision.target_agent, decision.task_description,
                              FALSE, None, Some(<<done.text>>)),
              executed |-> <<decision.target_agent>>, recorded |-> <<>>]
        ELSE LET agent_result == AgentResult(decision.target_agent,
                                     decision.task_description, TRUE,
                                     Some(done.result), None)
             IN  [result |-> agent_result,
                  executed |-> <<decision.target_agent>>,
                  recorded |-> <<agent_result>>]

\* A slip: the failed result of an agent that raised is recorded as well.
execute_delegation_recording_raised(agents, decision) ==
    LET agent == Get(agents, decision.target_agent)
        done == agent_execute(agent, decision.target_agent)
        raised == AgentResult(decision.target_agent, decision.task_description,
                      FALSE, None, Some(<<done.text>>))
    IN  IF decision.requires_human_approval
        THEN [result |-> AgentResult(decision.target_agent, decision.task_description,
                              FALSE, None,
                              Some(<<"Human approval required: ",
                                     Str(decision.approval_reason)>>)),
              executed |-> <<>>, recorded |-> <<>>]
        ELSE IF agent = NoAgent
        THEN [result |-> AgentResult(decision.target_agent, decision.task_description,
                              FALSE, None,
                              Some(<<"Agent '", decision.target_agent, "' not registered">>)),
              executed |-> <<>>, recorded |-> <<>>]
        ELSE IF done.raised
        THEN [result |-> raised, executed |-> <<decision.target_agent>>,
              recorded |-> <<raised>>]
        ELSE LET agent_result == AgentResult(decision.target_agent,
                                     decision.task_description, TRUE,
                                     Some(done.result), None)
             IN  [result |-> agent_result,
                  executed |-> <<decision.target_agent>>,
                  recorded |-> <<agent_result>>]

\* execute_delegation, lines 207-263: the AgentResult returned, the agents
\* whose execute ran, and what was appended to results_history.
execute_delegation(agents, decision) ==
    LET agent == Get(agents, decision.target_agent)
        done == agent_execute(agent, decision.target_agent)
    IN  IF decision.requires_human_approval
        THEN [result |-> AgentResult(decision.target_agent, decision.task_description,
                              FALSE, None,
                              Some(<<"Human approval required: ",
                                     Str(decision.approval_reason)>>)),
              executed |-> <<>>, recorded |-> <<>>]
        ELSE IF agent = NoAgent
        THEN [result |-> AgentResult(decision.target_agent, decision.task_description,
                              FALSE, None,
                              Some(<<"Agent '", decision.target_agent, "' not registered">>)),
              executed |-> <<>>, recorded |-> <<>>]
        ELSE IF done.raised
        THEN [result |-> AgentResult(decision.target_agent, decision.task_description,
                              FALSE, None, Some(<<done.text>>)),
              executed |-> <<decision.target_agent>>, recorded |-> <<>>]
        ELSE LET agent_result == AgentResult(decision.target_agent,
                                     decision.task_description, TRUE,
                                     Some(done.result), None)
             IN  [result |-> agent_result,
                  executed |-> <<decision.target_agent>>,
                  recorded |-> <<agent_result>>]

\* aggregated['insights'][result.agent_name] = result.result on the dict
\* insights, the list of its [agent_name, result] entries.
InsightSet(insights, agent_name, result) ==
    IF \E k \in 1..Len(insights) : insights[k].agent_name = agent_name
    THEN [k \in 1..Len(insights) |->
             IF insights[k].agent_name = agent_name
             THEN [agent_name |-> agent_name, result |-> result] ELSE insights[k]]
    ELSE Append(insights, [agent_name |-> agent_name, result |-> result])

\* The loop of aggregate_results: a successful result with a payload that is
\* neither None nor empty goes into insights.
RECURSIVE Insights(_, _)
Insights(agent_results, insights) ==
    IF agent_results = <<>> THEN insights
    ELSE LET result == Head(agent_results)
         IN  Insights(Tail(agent_results),
                 IF result.success /\ ~result.result.none /\ result.result.value # <<>>
                 THEN InsightSet(insights, result.agent_name, result.result.value)
                 ELSE insights)

\* aggregate_results, lines 265-294.
aggregate_results(agent_results) ==
    LET insights == Insights(agent_results, <<>>)
        failed == SelectSeq(agent_results, LAMBDA r : ~r.success)
    IN  [summary |-> IF insights # <<>>
                     THEN [text |-> "Successfully gathered insights from", count |-> Len(insights)]
                     ELSE [text |-> "", count |-> 0],
         insights |-> insights,
         recommendations |-> <<>>,
         next_steps |-> <<>>,
         success |-> \A k \in 1..Len(agent_results) : agent_results[k].success,
         errors |-> [k \in 1..Len(failed) |-> failed[k].error]]

\* A slip: the loop ends at the first agent whose execute raised.
RECURSIVE ExecuteAll_until_raised(_, _, _)
ExecuteAll_until_raised(agents, decisions, acc) ==
    IF decisions = <<>> THEN acc
    ELSE LET done == execute_delegation(agents, Head(decisions))
             next == [results |-> Append(acc.results, done.result),
                      executed |-> acc.executed \o done.executed,
                      recorded |-> acc.recorded \o done.recorded]
         IN  IF done.executed # <<>> /\ ~done.result.success THEN next
             ELSE ExecuteAll_until_raised(agents, Tail(decisions), next)

\* The loop of process_request over the decisions: the results, the agents
\* whose execute ran and what was appended to results_history, in order.
RECURSIVE ExecuteAll(_, _, _)
ExecuteAll(agents, decisions, acc) ==
    IF decisions = <<>> THEN acc
    ELSE LET done == execute_delegation(agents, Head(decisions))
         IN  ExecuteAll(agents, Tail(decisions),
                 [results |-> Append(acc.results, done.result),
                  executed |-> acc.executed \o done.executed,
                  recorded |-> acc.recorded \o done.recorded])

\* process_request, lines 296-339, from the decisions of determine_delegation
\* on.
process_request(agents, user_request, decisions) ==
    LET done == ExecuteAll(agents, decisions,
                    [results |-> <<>>, executed |-> <<>>, recorded |-> <<>>])
        agent_results == done.results
    IN  [response |->
             [request |-> user_request,
              delegations |-> [k \in 1..Len(decisions) |->
                  [agent |-> decisions[k].target_agent,
                   task |-> decisions[k].task_description,
                   requires_approval |-> decisions[k].requires_human_approval]],
              results |-> aggregate_results(agent_results),
              metadata |->
                  [total_delegations |-> Len(decisions),
                   successful_delegations |->
                       Cardinality({k \in 1..Len(agent_results) : agent_results[k].success}),
                   failed_delegations |->
                       Cardinality({k \in 1..Len(agent_results) : ~agent_results[k].success})]],
         executed |-> done.executed,
         recorded |-> done.recorded]

\* agent_counts[decision.target_agent] = agent_counts.get(..., 0) + 1 on the
\* dict agent_counts, the list of its [agent, count] entries.
CountAgent(agent_counts, target_agent) ==
    IF \E k \in 1..Len(agent_counts) : agent_counts[k].agent = target_agent
    THEN [k \in 1..Len(agent_counts) |->
             IF agent_counts[k].agent = target_agent
             THEN [agent |-> target_agent, count |-> agent_counts[k].count + 1]
             ELSE agent_counts[k]]
    ELSE Append(agent_counts, [agent |-> target_agent, count |-> 1])

RECURSIVE AgentCounts(_, _)
AgentCounts(decisions, agent_counts) ==
    IF decisions = <<>> THEN agent_counts
    ELSE AgentCounts(Tail(decisions), CountAgent(agent_counts, Head(decisions).target_agent))

\* get_delegation_stats, lines 341-363.  success_rate is the fraction num /
\* den: 1.0 is a fraction with num = den, and the int 0 is 0 / 1.
get_delegation_stats(decisions, agent_results) ==
    IF decisions = <<>> THEN [total_delegations |-> 0]
    ELSE [total_delegations |-> Len(decisions),
          delegations_by_agent |-> AgentCounts(decisions, <<>>),
          total_results |-> Len(agent_results),
          success_rate |->
              IF agent_results # <<>>
              THEN [num |-> Cardinality({k \in 1..Len(agent_results) :
                                           agent_results[k].success}),
                    den |-> Len(agent_results)]
              ELSE [num |-> 0, den |-> 1],
          approval_requests |->
              Cardinality({k \in 1..Len(decisions) : decisions[k].requires_human_approval})]

(***************************************************************************)
(* The impact analyzer as a state machine.  In the edit phase the manifest *)
(* file is written, one item or one connects_to entry at a time; then the  *)
(* engine is constructed and reads it once.                                *)
(***************************************************************************)
BfsIdle == [pc |-> "idle"]

NoException == "<no exception>"
ManifestWarning == "Warning: Manifest not found"
InitFailure == "Failed to initialize intelligence engine"

\* _load_manifest, lines 140-148, for what is at the manifest path; structure
\* is the 'structure' list of a manifest that parses to a dict.  Of the
\* exceptions of open and yaml.safe_load only FileNotFoundError is caught.
load_manifest(at_path, structure) ==
    CASE at_path = "missing" ->
             [raised |-> NoException, is_none |-> FALSE, structure |-> <<>>,
              printed |-> <<ManifestWarning>>]
      [] at_path = "unparseable" ->
             [raised |-> "yaml.YAMLError", is_none |-> FALSE, structure |-> <<>>,
              printed |-> <<>>]
      [] at_path = "empty" ->
             [raised |-> NoException, is_none |-> TRUE, structure |-> <<>>,
              printed |-> <<>>]
      [] OTHER ->
             [raised |-> NoException, is_none |-> FALSE, structure |-> structure,
              printed |-> <<>>]

\* The loop of _build_file_index: index[item['path']] = item
RECURSIVE FileIndex(_, _)
FileIndex(items, index) ==
    IF items = <<>> THEN index
    ELSE FileIndex(Tail(items), DictSet(index, Head(items)))

\* _build_file_index, lines 150-155: self.manifest.get raises when safe_load
\* returned None.
build_file_index(loaded) ==
    IF loaded.is_none
    THEN [raised |-> "AttributeError", index |-> <<>>]
    ELSE [raised |-> NoException, index |-> FileIndex(loaded.structure, <<>>)]

TotalEdges(items) ==
    LET RECURSIVE Sum(_)
        Sum(i) == IF i = 0 THEN 0 ELSE Len(items[i].connects_to) + Sum(i - 1)
    IN  Sum(Len(items))

DeclaredPaths(items) == {items[i].path : i \in 1..Len(items)}

\* The manifest gets a new item.  Paths are named in the order of their first
\* appearance: an item repeats a declared path or takes the next unused one.
DeclareItem(path) ==
    /\ phase = "edit"
    /\ Len(manifest) < MaxItems
    /\ path \in DeclaredPaths(manifest) \cup {Cardinality(DeclaredPaths(manifest)) + 1}
    /\ manifest' = Append(manifest,
           [path |-> path, importance |-> NoKey,
            connects_to |-> <<>>, dependencies |-> <<>>])
    /\ UNCHANGED <<manifest_path, phase, files, output, graph, report, previous, traced, bfs,
                   redundancy_vars, scoring_vars, coordinator_vars>>

\* Item i of the manifest gets one more connects_to entry.
Connect(i, target) ==
    /\ phase = "edit"
    /\ i \in 1..Len(manifest)
    /\ TotalEdges(manifest) < MaxEdges
    /\ manifest' = [manifest EXCEPT ![i].connects_to = Append(@, target)]
    /\ UNCHANGED <<manifest_path, phase, files, output, graph, report, previous, traced, bfs,
                   redundancy_vars, scoring_vars, coordinator_vars>>

\* engine = IntelligenceEngine() in the try statement of main, lines 914-919:
\* the manifest is loaded and indexed; an exception of the constructor is
\* reported and the program exits with status 1.
Construct ==
    /\ phase = "edit"
    /\ LET loaded == load_manifest(manifest_path, manifest)
           index == build_file_index(loaded)
           raised == IF loaded.raised # NoException THEN loaded.raised ELSE index.raised
       IN  IF raised = NoException
           THEN /\ phase' = "ready"
                /\ manifest' = loaded.structure
                /\ files' = index.index
                /\ output' = output \o loaded.printed
           ELSE /\ phase' = "failed"
                /\ output' = output \o loaded.printed \o <<InitFailure>>
                /\ UNCHANGED <<manifest, files>>
    /\ UNCHANGED <<manifest_path, graph, report, previous, traced, bfs,
                   redundancy_vars, scoring_vars, coordinator_vars>>

\* engine.analyze_impact()
AnalyzeImpact ==
    /\ phase = "ready"
    /\ bfs.pc = "idle"
    /\ graph' = build_dependency_graph(manifest)
    /\ report' = analyze_impact(graph')
    /\ previous' = report
    /\ UNCHANGED <<manifest_path, manifest, phase, files, output, traced, bfs,
                   redundancy_vars, scoring_vars, coordinator_vars>>

\* _calculate_failure_impact(node, graph) is entered for node k of the graph.
FailureImpactCall(k) ==
    /\ phase = "ready"
    /\ report # NoReport
    /\ bfs.pc \in {"idle", "returned"}
    /\ k \in 1..Len(graph)
    /\ bfs' = [pc |-> "loop", node |-> k, visited |-> {},
               queue |-> <<graph[k].path>>, iterations |-> 0]
    /\ UNCHANGED <<manifest_path, manifest, phase, files, output, graph, report,
                   previous, traced, redundancy_vars, scoring_vars, coordinator_vars>>

\* One iteration of its while loop.
FailureImpactLoop ==
    /\ bfs.pc = "loop"
    /\ bfs.queue # <<>>
    /\ LET s == bfs_iteration(graph, bfs)
       IN  bfs' = [bfs EXCEPT !.visited = s.visited, !.queue = s.queue,
                              !.iterations = @ + 1]
    /\ UNCHANGED <<manifest_path, manifest, phase, files, output, graph, report,
                   previous, traced, redundancy_vars, scoring_vars, coordinator_vars>>

\* The queue is empty: the call returns.
FailureImpactReturn ==
    /\ bfs.pc = "loop"
    /\ bfs.queue = <<>>
    /\ bfs' = [pc |-> "returned", node |-> bfs.node, visited |-> bfs.visited,
               queue |-> <<>>, iterations |-> bfs.iterations,
               result |-> failure_impact_of(graph[bfs.node], bfs.visited)]
    /\ UNCHANGED <<manifest_path, manifest, phase, files, output, graph, report,
                   previous, traced, redundancy_vars, scoring_vars, coordinator_vars>>

ImpactIdle ==
    /\ manifest_path = "missing"
    /\ manifest = <<>>
    /\ phase = "off"
    /\ files = <<>>
    /\ output = <<>>
    /\ graph = <<>>
    /\ report = NoReport
    /\ previous = NoReport
    /\ traced = NoChain
    /\ bfs = BfsIdle

RedundancyIdle ==
    /\ fenced = <<>>
    /\ all_blocks = <<>>
    /\ similarity_threshold = 0
    /\ clusters = <<>>
    /\ redundancy = NoReport
    /\ similarities = {}

ScoringIdle ==
    /\ args = NoArgs
    /\ results = NoResults

CoordinatorIdle ==
    /\ specialized_agents = [name \in AgentNames |-> NoAgent]
    /\ delegation_history = <<>>
    /\ results_history = <<>>
    /\ executed = <<>>
    /\ returned = NoCall

Init ==
    /\ manifest_path = "yaml"
    /\ manifest = <<>>
    /\ phase = "edit"
    /\ files = <<>>
    /\ output = <<>>
    /\ graph = <<>>
    /\ report = NoReport
    /\ previous = NoReport
    /\ traced = NoChain
    /\ bfs = BfsIdle
    /\ RedundancyIdle
    /\ ScoringIdle
    /\ CoordinatorIdle

Next ==
    \/ \E path \in Paths : DeclareItem(path)
    \/ \E i \in 1..MaxItems, target \in Paths : Connect(i, target)
    \/ Construct
    \/ AnalyzeImpact
    \/ \E k \in 1..MaxItems : FailureImpactCall(k)
    \/ FailureImpactLoop
    \/ FailureImpactReturn

Spec == Init /\ [][Next]_vars

(***************************************************************************)
(* The impact analyzer on hub-and-spoke manifests: two hubs (paths 1 and  *)
(* 2) of declared importance, then up to MaxSpokes spokes of default       *)
(* importance, each connected to none, one or both of the hubs.            *)
(***************************************************************************)
HubImportances == {"critical", "high"}

SpokeConnections == {<<>>, <<1>>, <<2>>, <<1, 2>>}

HubItems(importance1, importance2, external1, connects_to2) ==
    <<[path |-> 1, importance |-> importance1,
       connects_to |-> <<>>, dependencies |-> external1],
      [path |-> 2, importance |-> importance2,
       connects_to |-> connects_to2, dependencies |-> <<>>]>>

SpokeItems(connections) ==
    [i \in 1..Len(connections) |->
        [path |-> i + 2, importance |-> NoKey,
         connects_to |-> connections[i], dependencies |-> <<>>]]

HubManifests ==
    {HubItems(importance1, importance2, external1, connects_to2) \o SpokeItems(connections) :
        importance1 \in HubImportances, importance2 \in HubImportances,
        external1 \in {<<>>, <<"BigQuery">>}, connects_to2 \in {<<>>, <<1>>},
        connections \in UNION {[1..n -> SpokeConnections] : n \in 0..MaxSpokes}}

InitImpact ==
    /\ manifest_path = "yaml"
    /\ manifest \in HubManifests
    /\ phase = "ready"
    /\ files = FileIndex(manifest, <<>>)
    /\ output = <<>>
    /\ graph = <<>>
    /\ report = NoReport
    /\ previous = NoReport
    /\ traced = NoChain
    /\ bfs = BfsIdle
    /\ RedundancyIdle
    /\ ScoringIdle
    /\ CoordinatorIdle

NextImpact == AnalyzeImpact

SpecImpact == InitImpact /\ [][NextImpact]_vars

(***************************************************************************)
(* The start of the program: at the manifest path there is no file, a file *)
(* that is not YAML, an empty file, or a manifest of up to MaxLoaded       *)
(* items; the engine is constructed and the impact analysis is run.        *)
(***************************************************************************)
ManifestStates == {"missing", "unparseable", "empty", "yaml"}

LoadedItems ==
    [path : 1..MaxLoaded, importance : {NoKey, "critical"},
     connects_to : {<<>>, <<1>>, <<2>>}, dependencies : {<<>>}]

LoadedManifests == UNION {[1..n -> LoadedItems] : n \in 0..MaxLoaded}

InitLoad ==
    /\ manifest_path \in ManifestStates
    /\ manifest \in (IF manifest_path = "yaml" THEN LoadedManifests ELSE {<<>>})
    /\ phase = "edit"
    /\ files = <<>>
    /\ output = <<>>
    /\ graph = <<>>
    /\ report = NoReport
    /\ previous = NoReport
    /\ traced = NoChain
    /\ bfs = BfsIdle
    /\ RedundancyIdle
    /\ ScoringIdle
    /\ CoordinatorIdle

NextLoad ==
    \/ Construct
    \/ AnalyzeImpact

SpecLoad == InitLoad /\ [][NextLoad]_vars

(***************************************************************************)
(* _trace_dependency_chain alone, from every start on the graph of every   *)
(* manifest of three items with up to MaxChainEdges connects_to entries    *)
(* in all: targets listed twice, self references, cycles and a target      *)
(* that no item declares included.                                         *)
(***************************************************************************)
\* The paths the items declare; 0 is a path that no item declares.
ChainNodes == {1, 2, 3}

\* The manifest whose connects_to entries are written in the order of edges.
ChainManifest(edges) ==
    [path \in 1..Cardinality(ChainNodes) |->
        LET own == SelectSeq(edges, LAMBDA e : e[1] = path)
        IN  [path |-> path, importance |-> NoKey,
             connects_to |-> [k \in 1..Len(own) |-> own[k][2]],
             dependencies |-> <<>>]]

ChainManifests ==
    {ChainManifest(edges) :
        edges \in UNION {[1..n -> ChainNodes \X (ChainNodes \cup {0})] :
                            n \in 0..MaxChainEdges}}

\* self._trace_dependency_chain(start, graph)
TraceDependencyChain(start) ==
    /\ phase = "ready"
    /\ traced' = [called |-> TRUE, start |-> start,
                  chain |-> trace_dependency_chain(start, graph, {})]
    /\ UNCHANGED <<manifest_path, manifest, phase, files, output, graph, report,
                   previous, bfs, redundancy_vars, scoring_vars, coordinator_vars>>

InitChain ==
    /\ manifest_path = "yaml"
    /\ manifest \in ChainManifests
    /\ phase = "ready"
    /\ files = FileIndex(manifest, <<>>)
    /\ output = <<>>
    /\ graph = build_dependency_graph(manifest)   \* analyze_impact, line 306
    /\ report = NoReport
    /\ previous = NoReport
    /\ traced = NoChain
    /\ bfs = BfsIdle
    /\ RedundancyIdle
    /\ ScoringIdle
    /\ CoordinatorIdle

NextChain == \E start \in ChainNodes \cup {0} : TraceDependencyChain(start)

SpecChain == InitChain /\ [][NextChain]_vars

(***************************************************************************)
(* The redundancy scanner as a state machine: scan_redundancies, lines     *)
(* 161-189, on the blocks of at most two markdown files.  The blocks of a  *)
(* file follow each other in all_blocks; a file holds nothing but its      *)
(* fenced blocks, so a block starts one line after the closing fence of    *)
(* the block before it.                                                    *)
(***************************************************************************)
Contents ==
    {<< <<"x", "y">>, <<"z">>, <<>> >>,
     << <<"x", "y">>, <<"z">>, <<"#", "w">>, <<>> >>,
     << <<"x">>, <<"y">>, <<>> >>,
     << <<"Y">>, <<"z">>, <<>>, <<>> >>,
     << <<"#", "x">>, <<>>, <<>> >>,
     << <<"#", "y">>, <<>>, <<>>, <<>> >>}

Thresholds == {0, 50, 70, 100, 101}

\* The blocks of the contents given, the first in_first of them in a.md and
\* the others in b.md.
RECURSIVE StartLine(_, _, _)
StartLine(contents, in_first, i) ==
    IF i = 1 \/ i = in_first + 1 THEN 1
    ELSE StartLine(contents, in_first, i - 1) + LineCount(contents[i - 1]) + 1

CodeBlock(contents, in_first, i) ==
    LET start_line == StartLine(contents, in_first, i)
    IN  [file_path |-> IF i <= in_first THEN "a.md" ELSE "b.md",
         content |-> contents[i],
         start_line |-> start_line,
         end_line |-> start_line + LineCount(contents[i]) - 1,
         hash_value |-> Md5(contents[i])]

ExtractedBlocks ==
    {[i \in 1..Len(contents) |-> CodeBlock(contents, in_first, i)] :
        contents \in UNION {[1..n -> Contents] : n \in 0..MaxBlocks},
        in_first \in {1, MaxBlocks}}

\* engine.scan_redundancies(similarity_threshold)
ScanRedundancies ==
    /\ clusters' = cluster_similar_blocks(all_blocks, similarity_threshold)
    /\ redundancy' = generate_redundancy_report(all_blocks, clusters')
    /\ UNCHANGED <<fenced, all_blocks, similarity_threshold, similarities,
                   impact_vars, scoring_vars, coordinator_vars>>

InitRedundancy ==
    /\ fenced = <<>>
    /\ all_blocks \in ExtractedBlocks
    /\ similarity_threshold \in Thresholds
    /\ clusters = <<>>
    /\ redundancy = NoReport
    /\ similarities = {}
    /\ ImpactIdle
    /\ ScoringIdle
    /\ CoordinatorIdle

NextRedundancy == ScanRedundancies

SpecRedundancy == InitRedundancy /\ [][NextRedundancy]_vars

(***************************************************************************)
(* CodeBlock.similarity_to, lines 42-59, called on the blocks of a pair in *)
(* either order and on a block and itself.                                 *)
(***************************************************************************)
(* _extract_code_blocks alone, lines 191-228, on a markdown file that      *)
(* holds up to MaxFenced fenced blocks and nothing else.  The content of a *)
(* fenced block is the list of its parts between newlines, as split gives  *)
(* them: 'x\ny\n' is the parts x, y and an empty one.                      *)
(***************************************************************************)
FencedContents ==
    Contents \cup {<< <<"x">>, <<>> >>, << <<"x">> >>, << <<>> >>}

\* The loop over the matches: match i of the file, which starts at start_line.
RECURSIVE ExtractFrom(_, _, _)
ExtractFrom(contents, i, start_line) ==
    IF i > Len(contents) THEN <<>>
    ELSE LET code_content == contents[i]
             block == [file_path |-> "a.md",
                       content |-> code_content,
                       start_line |-> start_line,
                       end_line |-> start_line + LineCount(code_content) - 1,
                       hash_value |-> Md5(code_content)]
         IN  (IF LineCount(code_content) < 3 THEN <<>> ELSE <<block>>)
             \o ExtractFrom(contents, i + 1, start_line + LineCount(code_content) + 1)

extract_code_blocks(contents) == ExtractFrom(contents, 1, 1)

\* blocks = self._extract_code_blocks(file_path); all_blocks.extend(blocks)
ExtractCodeBlocks ==
    /\ all_blocks = <<>>
    /\ all_blocks' = all_blocks \o extract_code_blocks(fenced)
    /\ UNCHANGED <<fenced, similarity_threshold, clusters, redundancy, similarities,
                   impact_vars, scoring_vars, coordinator_vars>>

InitExtract ==
    /\ fenced \in UNION {[1..n -> FencedContents] : n \in 0..MaxFenced}
    /\ all_blocks = <<>>
    /\ similarity_threshold = 0
    /\ clusters = <<>>
    /\ redundancy = NoReport
    /\ similarities = {}
    /\ ImpactIdle
    /\ ScoringIdle
    /\ CoordinatorIdle

NextExtract == ExtractCodeBlocks

SpecExtract == InitExtract /\ [][NextExtract]_vars

(***************************************************************************)
\* The contents of the scanner and one that shares no token with them.
SimilarityContents == Contents \cup {<< <<"v">>, <<"w", "#", "x">>, <<>> >>}

BlockPairs ==
    {[i \in 1..2 |-> CodeBlock(contents, in_first, i)] :
        contents \in [1..2 -> SimilarityContents], in_first \in {1, 2}}

\* all_blocks[i].similarity_to(all_blocks[j])
SimilarityTo(i, j) ==
    /\ i \in 1..Len(all_blocks)
    /\ j \in 1..Len(all_blocks)
    /\ similarities' = similarities
           \cup {<<i, j, similarity_to(all_blocks[i], all_blocks[j])>>}
    /\ UNCHANGED <<fenced, all_blocks, similarity_threshold, clusters, redundancy,
                   impact_vars, scoring_vars, coordinator_vars>>

InitSimilarity ==
    /\ fenced = <<>>
    /\ all_blocks \in BlockPairs
    /\ similarity_threshold = 0
    /\ clusters = <<>>
    /\ redundancy = NoReport
    /\ similarities = {}
    /\ ImpactIdle
    /\ ScoringIdle
    /\ CoordinatorIdle

NextSimilarity == \E i, j \in 1..2 : SimilarityTo(i, j)

SpecSimilarity == InitSimilarity /\ [][NextSimilarity]_vars

(***************************************************************************)
(* The scoring functions, called for an importance drawn at the start:     *)
(* _impact_severity for two impact counts and criticality_score for a node *)
(* with a number of dependents.  results.severity holds the pairs          *)
(* <<impact_count, severity returned>>, results.score the pair             *)
(* <<dependents, score returned>> of the last call, results.mitigation the  *)
(* triple <<dependents, external_deps, strategies returned>> of the last    *)
(* _suggest_mitigation call.                                               *)
(***************************************************************************)
Importances == {"critical", "high", "medium", "low", "urgent"}

\* The 'dependencies' lists of the items: labels of external systems.
ExternalDeps == {<<>>, <<"BigQuery">>, <<"Salesforce">>, <<"Salesforce", "BigQuery">>}

\* self._impact_severity(impact_count, importance)
ImpactSeverity(impact_count) ==
    /\ args # NoArgs
    /\ Cardinality(results.severity) < 2
    /\ results' = [results EXCEPT !.severity =
           @ \cup {<<impact_count, impact_severity(impact_count, args.importance)>>}]
    /\ UNCHANGED <<args, impact_vars, redundancy_vars, coordinator_vars>>

\* node.criticality_score() of a node with the dependents 1 .. dependents.
CriticalityScore(dependents) ==
    /\ args # NoArgs
    /\ LET node == [path |-> 0, importance |-> args.importance,
                    dependencies |-> <<>>,
                    dependents |-> [i \in 1..dependents |-> i],
                    external_deps |-> <<>>]
       IN  results' = [results EXCEPT !.score = <<dependents, criticality_score(node)>>]
    /\ UNCHANGED <<args, impact_vars, redundancy_vars, coordinator_vars>>

\* self._suggest_mitigation(node) for a node with the dependents
\* 1 .. dependents and the external dependencies given.
SuggestMitigation(dependents, external_deps) ==
    /\ args # NoArgs
    /\ LET node == [path |-> 0, importance |-> args.importance,
                    dependencies |-> <<>>,
                    dependents |-> [i \in 1..dependents |-> i],
                    external_deps |-> external_deps]
       IN  results' = [results EXCEPT !.mitigation =
               <<dependents, external_deps, suggest_mitigation(node)>>]
    /\ UNCHANGED <<args, impact_vars, redundancy_vars, coordinator_vars>>

InitScoring ==
    /\ args \in [importance : Importances]
    /\ results = NoResults
    /\ ImpactIdle
    /\ RedundancyIdle
    /\ CoordinatorIdle

NextScoring ==
    \/ \E impact_count \in 0..MaxCount : ImpactSeverity(impact_count)
    \/ \E dependents \in 0..MaxCount : CriticalityScore(dependents)
    \/ \E dependents \in 0..MaxCount, external_deps \in ExternalDeps :
           SuggestMitigation(dependents, external_deps)

SpecScoring == InitScoring /\ [][NextScoring]_vars

(***************************************************************************)
(* The complexity scorer: _analyze_file_complexity, lines 654-686, from    *)
(* the counts on (args holds the four counts of a document), and           *)
(* needs_refactoring on the metrics it returns.  results.metrics is the    *)
(* list of the metrics returned, results.needs_refactoring the list of the *)
(* answers of needs_refactoring for them.                                  *)
(***************************************************************************)
LineCounts == {0, 1, 500, 501, 999, 1000, 1001, 1200}
FunctionCounts == {0, 1, 15, 30, 31, 45}
ClassCounts == {0, 1, 25, 50, 51}
ImportCounts == {0, 1, 10, 20, 21}

NoMetrics == [metrics |-> <<>>, needs_refactoring |-> <<>>]

\* complexity_score = self._calculate_complexity_score(...), then
\* ComplexityMetrics(...)
AnalyzeFileComplexity ==
    /\ results = NoMetrics
    /\ results' = [results EXCEPT !.metrics =
           <<[line_count |-> args.lines,
              function_count |-> args.functions,
              class_count |-> args.classes,
              import_count |-> args.imports,
              complexity_score |-> calculate_complexity_score(
                  args.lines, args.functions, args.classes, args.imports)]>>]
    /\ UNCHANGED <<args, impact_vars, redundancy_vars, coordinator_vars>>

\* metric.needs_refactoring()
NeedsRefactoring ==
    /\ results.metrics # <<>>
    /\ results' = [results EXCEPT !.needs_refactoring =
           <<needs_refactoring(results.metrics[1])>>]
    /\ UNCHANGED <<args, impact_vars, redundancy_vars, coordinator_vars>>

InitComplexity ==
    /\ args \in [lines : LineCounts, functions : FunctionCounts,
                  classes : ClassCounts, imports : ImportCounts]
    /\ results = NoMetrics
    /\ ImpactIdle
    /\ RedundancyIdle
    /\ CoordinatorIdle

NextComplexity ==
    \/ AnalyzeFileComplexity
    \/ NeedsRefactoring

SpecComplexity == InitComplexity /\ [][NextComplexity]_vars

(***************************************************************************)
(* The coordinator as a state machine: one action per public method, on a  *)
(* coordinator just constructed.  A request is the list of its words.      *)
(***************************************************************************)
Requests ==
    {<<"hello">>, <<"Launch", "campaign">>, <<"LAUNCH", "customers">>,
     <<"campaign", "customers">>}

\* The decisions a caller builds itself, as the tests do.
DirectDecisions ==
    {DelegationDecision(target_agent, <<"Test query">>, <<>>, requires_human_approval,
         IF requires_human_approval THEN Some("Campaign launch requires approval") ELSE None) :
        target_agent \in {"campaign_design", "nonexistent_agent"},
        requires_human_approval \in BOOLEAN}

\* The agents that are registered in the model.
RegisteredNames == {"data_intelligence", "campaign_design"}

\* coordinator.register_specialized_agent(name, agent)
RegisterSpecializedAgent(name, agent) ==
    /\ specialized_agents' = [specialized_agents EXCEPT ![name] = agent]
    /\ executed' = <<>>
    /\ returned' = [call |-> "register_specialized_agent", name |-> name]
    /\ UNCHANGED <<delegation_history, results_history,
                   impact_vars, redundancy_vars, scoring_vars>>

\* coordinator.determine_delegation(user_request)
DetermineDelegation(user_request) ==
    LET decisions == decisions_for(user_request)
    IN  /\ \/ delegation_history = <<>>
           \/ Len(delegation_history) + Len(decisions) <= MaxDelegations
        /\ delegation_history' = delegation_history \o decisions
        /\ executed' = <<>>
        /\ returned' = [call |-> "determine_delegation", request |-> user_request,
                        value |-> decisions]
        /\ UNCHANGED <<specialized_agents, results_history,
                       impact_vars, redundancy_vars, scoring_vars>>

\* coordinator.execute_delegation(decision)
ExecuteDelegation(decision) ==
    LET done == execute_delegation(specialized_agents, decision)
    IN  /\ Len(results_history) + Len(done.recorded) <= MaxResults
        /\ results_history' = results_history \o done.recorded
        /\ executed' = done.executed
        /\ returned' = [call |-> "execute_delegation", decision |-> decision,
                        value |-> done.result]
        /\ UNCHANGED <<specialized_agents, delegation_history,
                       impact_vars, redundancy_vars, scoring_vars>>

\* A slip: the decisions of the request are not added to delegation_history.
ProcessRequest_history_forgotten(user_request) ==
    LET decisions == decisions_for(user_request)
        done == process_request(specialized_agents, user_request, decisions)
    IN  /\ Len(delegation_history) + Len(decisions) <= MaxDelegations
        /\ Len(results_history) + Len(done.recorded) <= MaxResults
        /\ results_history' = results_history \o done.recorded
        /\ executed' = done.executed
        /\ returned' = [call |-> "process_request", request |-> user_request,
                        value |-> done.response]
        /\ UNCHANGED <<specialized_agents, delegation_history,
                       impact_vars, redundancy_vars, scoring_vars>>

\* coordinator.process_request(user_request)
ProcessRequest(user_request) ==
    LET decisions == decisions_for(user_request)
        done == process_request(specialized_agents, user_request, decisions)
    IN  /\ Len(delegation_history) + Len(decisions) <= MaxDelegations
        /\ Len(results_history) + Len(done.recorded) <= MaxResults
        /\ delegation_history' = delegation_history \o decisions
        /\ results_history' = results_history \o done.recorded
        /\ executed' = done.executed
        /\ returned' = [call |-> "process_request", request |-> user_request,
                        value |-> done.response]
        /\ UNCHANGED <<specialized_agents, impact_vars, redundancy_vars, scoring_vars>>

\* coordinator.get_delegation_stats()
GetDelegationStats ==
    /\ executed' = <<>>
    /\ returned' = [call |-> "get_delegation_stats",
                    value |-> get_delegation_stats(delegation_history, results_history)]
    /\ UNCHANGED <<specialized_agents, delegation_history, results_history,
                   impact_vars, redundancy_vars, scoring_vars>>

InitCoordinator ==
    /\ CoordinatorIdle
    /\ ImpactIdle
    /\ RedundancyIdle
    /\ ScoringIdle

NextCoordinator ==
    \/ \E name \in RegisteredNames, agent \in AgentKinds : RegisterSpecializedAgent(name, agent)
    \/ \E user_request \in Requests : DetermineDelegation(user_request)
    \/ \E decision \in DirectDecisions \cup Entries(delegation_history) :
           ExecuteDelegation(decision)
    \/ \E user_request \in Requests : ProcessRequest(user_request)
    \/ GetDelegationStats

SpecCoordinator == InitCoordinator /\ [][NextCoordinator]_vars

(***************************************************************************)
(* determine_delegation alone, on every request of up to MaxWords words:   *)
(* words that hold a keyword of each list, words that hold none, 'leads'   *)
(* with 'ad' and 'ads' inside it, and the two words of 'lifetime value'.   *)
(***************************************************************************)
RoutedWords ==
    {"hello", "customers", "Predict", "leads", "campaign", "ROI", "lifetime", "value"}

\* The first call on a coordinator just constructed.
NextRouting ==
    \E user_request \in UNION {[1..n -> RoutedWords] : n \in 0..MaxWords} :
        delegation_history = <<>> /\ DetermineDelegation(user_request)

SpecRouting == InitCoordinator /\ [][NextRouting]_vars

(***************************************************************************)
(* aggregate_results alone, on every list of up to MaxAggregated results a *)
(* caller builds: two agents, successes with a payload, with an empty dict *)
(* and with None, and failures with and without an error text.             *)
(***************************************************************************)
GivenResults ==
    {AgentResult(agent_name, <<"Query data">>, TRUE, result, None) :
        agent_name \in {"data_intelligence", "predictive_insights"},
        result \in {Some(<< <<"data", "1">> >>), Some(<< <<"predictions", "9">> >>),
                    Some(<<>>), None}}
    \cup
    {AgentResult(agent_name, <<"Predict">>, FALSE, None, error) :
        agent_name \in {"data_intelligence", "predictive_insights"},
        error \in {Some(<<"Model not found">>), None}}

\* coordinator.aggregate_results(results)
AggregateResults(agent_results) ==
    /\ executed' = <<>>
    /\ returned' = [call |-> "aggregate_results", results |-> agent_results,
                    value |-> aggregate_results(agent_results)]
    /\ UNCHANGED <<specialized_agents, delegation_history, results_history,
                   impact_vars, redundancy_vars, scoring_vars>>

\* One call on a coordinator just constructed.
NextAggregate ==
    \E agent_results \in UNION {[1..n -> GivenResults] : n \in 0..MaxAggregated} :
        returned = NoCall /\ AggregateResults(agent_results)

SpecAggregate == InitCoordinator /\ [][NextAggregate]_vars

(***************************************************************************)
(* Properties of the dependency graph and of the failure impact.           *)
(***************************************************************************)
NodePaths(g) == {g[k].path : k \in 1..Len(g)}

\* C1: after _build_dependency_graph, A is in B.dependents exactly when B is
\* in A's declared dependencies, for all nodes A and B; a dependency on an
\* undeclared target stays in the dependencies list of its source (the list
\* is the item's connects_to), creates no node (the nodes are the declared
\* paths) and no reverse edge (every dependents entry is a node).
C1_DependentsAreInverse ==
    report # NoReport =>
        /\ \A a, b \in 1..Len(graph) :
               Contains(graph[b].dependents, graph[a].path)
                   <=> Contains(graph[a].dependencies, graph[b].path)
        /\ NodePaths(graph) = DeclaredPaths(manifest)
        /\ \A a \in 1..Len(graph) : \E i \in 1..Len(manifest) :
               /\ manifest[i].path = graph[a].path
               /\ manifest[i].connects_to = graph[a].dependencies
        /\ \A b \in 1..Len(graph) : Entries(graph[b].dependents) \subseteq NodePaths(graph)

\* A graph with an edge between two different nodes and a dangling edge.
C1_Witness ==
    /\ report # NoReport
    /\ \E a, b \in 1..Len(graph) :
           a # b /\ Contains(graph[a].dependencies, graph[b].path)
    /\ \E c \in 1..Len(graph) :
           ~(Entries(graph[c].dependencies) \subseteq NodePaths(graph))

\* The nodes reachable from the set S of paths by dependents edges, S included.
RECURSIVE ReachableByDependents(_, _)
ReachableByDependents(g, S) ==
    LET T == S \cup UNION {Entries(g[k].dependents) :
                               k \in {n \in 1..Len(g) : g[n].path \in S}}
    IN  IF T = S THEN S ELSE ReachableByDependents(g, T)

TransitiveDependents(g, start) == ReachableByDependents(g, {start}) \ {start}

TotalDependents(g) ==
    LET RECURSIVE Sum(_)
        Sum(i) == IF i = 0 THEN 0 ELSE Len(g[i].dependents) + Sum(i - 1)
    IN  Sum(Len(g))

\* C2: on every graph, cyclic and self-referencing ones included,
\* _calculate_failure_impact terminates (its loop runs at most once for the
\* start node and once per dependents entry of the graph) and total_impact is
\* the number of nodes other than the start node reachable from it by
\* dependents edges, in a call of its own and in the report of analyze_impact.
C2_TotalImpactIsReachableCount ==
    /\ bfs.pc \in {"loop", "returned"} =>
           bfs.iterations <= 1 + TotalDependents(graph)
    /\ bfs.pc = "returned" =>
           bfs.result.total_impact =
               Cardinality(TransitiveDependents(graph, graph[bfs.node].path))
    /\ report # NoReport =>
           \A c \in 1..Len(report.components) :
               report.components[c].failure_impact.total_impact =
                   Cardinality(TransitiveDependents(graph, report.components[c].path))

\* The two-node cycle X -> Y, Y -> X: the total impact of X is 1.
C2_Witness ==
    /\ bfs.pc = "returned"
    /\ Len(graph) = 2
    /\ graph[1].dependencies = <<graph[2].path>>
    /\ graph[2].dependencies = <<graph[1].path>>
    /\ bfs.node = 1
    /\ bfs.result.total_impact = 1

\* The paths of the report's components that are nodes with at least 5
\* dependents and importance critical, in the order of the components.
FlaggedComponents ==
    SelectSeq([c \in 1..Len(report.components) |-> report.components[c].path],
              LAMBDA path :
                  LET node == graph[DictIndex(graph, path)]
                  IN  Len(node.dependents) >= 5 /\ node.importance = "critical")

\* C10: single_points_of_failure of the report of analyze_impact holds one
\* entry for each node with blast radius >= 5 and importance critical, none
\* for another node, in the relative order of the components list.
C10_SinglePointsOfFailure ==
    report # NoReport =>
        /\ [e \in 1..Len(report.single_points_of_failure) |->
               report.single_points_of_failure[e].component] = FlaggedComponents
        /\ \A e \in 1..Len(report.single_points_of_failure) :
               report.single_points_of_failure[e].reason >= 5

\* Both hubs are flagged; the first has exactly 5 dependents, and a spoke is
\* not flagged.
C10_Witness ==
    /\ report # NoReport
    /\ Len(report.single_points_of_failure) = 2
    /\ report.single_points_of_failure[1].reason = 5
    /\ Len(report.components) > 2

(***************************************************************************)
(* Properties of the redundancy scanner.                                   *)
(***************************************************************************)
Members(cluster) == Entries(cluster)

Similar(i, j) ==
    meets_threshold(similarity_to(all_blocks[i], all_blocks[j]), similarity_threshold)

\* C3: after a run of _cluster_similar_blocks no fragment, identified by its
\* position in the input, is in two of the clusters returned or twice in one.
C3_ClustersAreDisjoint ==
    redundancy # NoReport =>
        \A c, d \in 1..Len(clusters) :
            \A k \in 1..Len(clusters[c]), l \in 1..Len(clusters[d]) :
                clusters[c][k] = clusters[d][l] => c = d /\ k = l

\* Two clusters, and a member of the first similar enough to the
\* representative of the second, which comes before it.
C3_Witness ==
    /\ redundancy # NoReport
    /\ Len(clusters) = 2
    /\ \E j \in Members(clusters[1]) :
           j > clusters[2][1] /\ Similar(clusters[2][1], j)

\* The positions that are members, but not the representative, of a cluster
\* whose representative comes before position i.
AssignedBefore(i) ==
    UNION {Members(clusters[c]) \ {clusters[c][1]} :
               c \in {d \in 1..Len(clusters) : clusters[d][1] < i}}

\* The positions the outer loop starts a cluster for: those no cluster holds
\* as a later member.
Representatives ==
    {i \in 1..Len(all_blocks) :
        \A c \in 1..Len(clusters) : i \in Members(clusters[c]) => i = clusters[c][1]}

\* C4: a cluster returned has at least 2 members, in input order, the first
\* of them (the representative) the lowest, and every other member is at
\* least as similar to the representative as the threshold asks; a fragment
\* after a representative, unassigned when the representative is processed
\* and that similar to it, is a member of the representative's cluster.
C4_ClusterMembers ==
    redundancy # NoReport =>
        /\ \A c \in 1..Len(clusters) :
               /\ Len(clusters[c]) >= 2
               /\ \A k \in 1..(Len(clusters[c]) - 1) : clusters[c][k] < clusters[c][k + 1]
               /\ \A k \in 2..Len(clusters[c]) : Similar(clusters[c][1], clusters[c][k])
        /\ \A i \in Representatives : \A j \in (i + 1)..Len(all_blocks) :
               (j \notin AssignedBefore(i) /\ Similar(i, j)) =>
                   \E c \in 1..Len(clusters) :
                       clusters[c][1] = i /\ j \in Members(clusters[c])

\* A cluster that skips a fragment between its members, and a fragment left
\* in no cluster.
C4_Witness ==
    /\ redundancy # NoReport
    /\ \E c \in 1..Len(clusters) :
           /\ Len(clusters[c]) = 3
           /\ clusters[c][3] > clusters[c][2] + 1
    /\ \E i \in 1..Len(all_blocks) :
           \A c \in 1..Len(clusters) : i \notin Members(clusters[c])

\* C5: potential_savings_lines of a cluster of the report is the sum of the
\* line counts of its members other than the first.
C5_SavingsSumOverMembers ==
    redundancy # NoReport =>
        \A c \in 1..Len(redundancy.clusters) :
            redundancy.clusters[c].potential_savings_lines =
                SumSeq([k \in 1..(Len(clusters[c]) - 1) |->
                           LineCount(all_blocks[clusters[c][k + 1]].content)])

\* C6: with a threshold of at most 100, two fragments of equal content hash
\* are members of one cluster; when they are the whole input, the result is
\* the one cluster of the two and its potential_savings_lines is the line
\* count of the fragment.
C6_IdenticalFragmentsTogether ==
    (redundancy # NoReport /\ similarity_threshold <= 100) =>
        /\ \A i, j \in 1..Len(all_blocks) :
               (i < j /\ all_blocks[i].hash_value = all_blocks[j].hash_value) =>
                   \E c \in 1..Len(clusters) : {i, j} \subseteq Members(clusters[c])
        /\ (Len(all_blocks) = 2 /\ all_blocks[1].hash_value = all_blocks[2].hash_value) =>
               /\ clusters = << <<1, 2>> >>
               /\ Len(redundancy.clusters) = 1
               /\ redundancy.clusters[1].block_count = 2
               /\ redundancy.clusters[1].potential_savings_lines =
                      LineCount(all_blocks[1].content)

\* Two fragments of the same content in different documents, threshold 100.
C6_Witness ==
    /\ redundancy # NoReport
    /\ similarity_threshold = 100
    /\ Len(all_blocks) = 2
    /\ all_blocks[1].content = all_blocks[2].content
    /\ all_blocks[1].file_path # all_blocks[2].file_path
    /\ Len(clusters) = 1

(***************************************************************************)
(* Properties of the scoring functions.                                    *)
(***************************************************************************)
\* C7: _impact_severity takes the first rule that matches: critical and
\* impact >= 5 is CATASTROPHIC; critical or impact >= 10 is SEVERE;
\* impact >= 5 is MODERATE; anything else LOW.  Rule by rule: CATASTROPHIC is
\* critical with 5 or more, SEVERE is critical below 5 or another importance
\* with 10 or more, MODERATE is another importance with 5 to 9, LOW the rest.
C7_SeverityRules ==
    \A call \in results.severity :
        LET impact_count == call[1]
            severity == call[2]
            critical == args.importance = "critical"
        IN  /\ severity \in {"CATASTROPHIC", "SEVERE", "MODERATE", "LOW"}
            /\ severity = "CATASTROPHIC" <=> (critical /\ impact_count >= 5)
            /\ severity = "SEVERE" <=>
                   \/ critical /\ impact_count < 5
                   \/ ~critical /\ impact_count >= 10
            /\ severity = "MODERATE" <=>
                   (~critical /\ impact_count >= 5 /\ impact_count < 10)
            /\ severity = "LOW" <=> (~critical /\ impact_count < 5)

\* An importance outside the four known ones, with each of its three results.
C7_Witness ==
    /\ args.importance = "urgent"
    /\ \E call \in results.severity : call[1] = 10 /\ call[2] = "SEVERE"
    /\ \E call \in results.severity : call[1] = 9 /\ call[2] = "MODERATE"

SeverityRank(severity) ==
    CASE severity = "LOW" -> 0
      [] severity = "MODERATE" -> 1
      [] severity = "SEVERE" -> 2
      [] severity = "CATASTROPHIC" -> 3

\* C8: for one importance and impact counts a <= b, the severity for b does
\* not rank below the severity for a (LOW < MODERATE < SEVERE < CATASTROPHIC).
C8_SeverityMonotone ==
    \A low, high \in results.severity :
        low[1] <= high[1] => SeverityRank(low[2]) <= SeverityRank(high[2])

\* Two counts on either side of a step, with results of different rank.
C8_Witness ==
    \E low, high \in results.severity :
        /\ low[1] + 1 = high[1]
        /\ SeverityRank(low[2]) < SeverityRank(high[2])
        /\ args.importance = "critical"

BaseScore ==
    CASE args.importance = "critical" -> 100
      [] args.importance = "high" -> 75
      [] args.importance = "medium" -> 50
      [] args.importance = "low" -> 25
      [] OTHER -> 50

\* C9: criticality_score is min(100, base + min(5 * blast_radius, 50)), base
\* being 100, 75, 50, 25 for critical, high, medium, low and 50 otherwise; it
\* lies in 0..100, and from 10 dependents on it is what it is for 10.
C9_CriticalityScore ==
    results.score # <<>> =>
        LET dependents == results.score[1]
            score == results.score[2]
            fan_in == IF 5 * dependents <= 50 THEN 5 * dependents ELSE 50
        IN  /\ score = (IF BaseScore + fan_in <= 100 THEN BaseScore + fan_in ELSE 100)
            /\ score \in 0..100
            /\ dependents >= 10 =>
                   score = (IF BaseScore + 50 <= 100 THEN BaseScore + 50 ELSE 100)

\* A node of low importance with more than 10 dependents scores 75.
C9_Witness ==
    /\ args.importance = "low"
    /\ results.score # <<>>
    /\ results.score[1] > 10
    /\ results.score[2] = 75

\* The fractions a and b are the same number.
SameNumber(a, b) == a.num * b.den = b.num * a.den

\* C13: for all fragments A and B, A.similarity_to(B) is B.similarity_to(A).
C13_SimilaritySymmetric ==
    \A there, back \in similarities :
        (there[1] = back[2] /\ there[2] = back[1]) => SameNumber(there[3], back[3])

\* Both calls made on two fragments that share some of their tokens.
C13_Witness ==
    \E there, back \in similarities :
        /\ there[1] = 1 /\ there[2] = 2
        /\ back[1] = 2 /\ back[2] = 1
        /\ there[3].num > 0
        /\ there[3].num < 100 * there[3].den

\* The token set of block i of all_blocks.
TokenSet(i) == Entries(tokenize(all_blocks[i].content))

\* C14: similarity_to returns 100 when the two hashes are equal (a fragment
\* compared with itself included), 100 when both token sets are empty, 0
\* when exactly one is empty, otherwise 100 times the size of the
\* intersection of the token sets divided by the size of their union; the
\* result lies between 0 and 100.
C14_SimilarityValue ==
    \A call \in similarities :
        LET i == call[1]
            j == call[2]
            similarity == call[3]
        IN  /\ similarity.den > 0
            /\ similarity.num >= 0
            /\ similarity.num <= 100 * similarity.den
            /\ i = j => SameNumber(similarity, Percent(100, 1))
            /\ IF all_blocks[i].hash_value = all_blocks[j].hash_value
                   THEN SameNumber(similarity, Percent(100, 1))
               ELSE IF TokenSet(i) = {} /\ TokenSet(j) = {}
                   THEN SameNumber(similarity, Percent(100, 1))
               ELSE IF TokenSet(i) = {} \/ TokenSet(j) = {}
                   THEN SameNumber(similarity, Percent(0, 1))
               ELSE SameNumber(similarity,
                        Percent(100 * Cardinality(TokenSet(i) \cap TokenSet(j)),
                                Cardinality(TokenSet(i) \cup TokenSet(j))))

\* Two fragments of different content that both have no token, compared
\* with each other and the first with itself.
C14_Witness ==
    /\ Len(all_blocks) = 2
    /\ all_blocks[1].hash_value # all_blocks[2].hash_value
    /\ TokenSet(1) = {} /\ TokenSet(2) = {}
    /\ <<1, 2, Percent(100, 1)>> \in similarities
    /\ <<1, 1, Percent(100, 1)>> \in similarities

\* The sub-score of a count, in 3000ths of a point: points when the count
\* has reached the number given, its proportional share of them below it.
SubScore(count, reached_at, points) ==
    IF count >= reached_at THEN points * 3000
    ELSE (points * 3000 * count) \div reached_at

\* C15: _calculate_complexity_score is the sum of four sub-scores capped at
\* 50, 20, 20 and 10 (reached at 1000 lines, 30 blocks, 50 headers and 20
\* imports), capped at 100; it lies in 0..100; a document of 1200 lines and
\* no block, header or import scores exactly 50 and needs refactoring.
C15_ComplexityScore ==
    results.metrics # <<>> =>
        LET score == results.metrics[1].complexity_score
            sum == SubScore(args.lines, 1000, 50) + SubScore(args.functions, 30, 20)
                   + SubScore(args.classes, 50, 20) + SubScore(args.imports, 20, 10)
            capped == IF sum <= 100 * 3000 THEN sum ELSE 100 * 3000
        IN  /\ score.den > 0
            /\ score.num * 3000 = capped * score.den
            /\ score.num >= 0
            /\ score.num <= 100 * score.den
            /\ args = [lines |-> 1200, functions |-> 0, classes |-> 0, imports |-> 0] =>
                   /\ score.num = 50 * score.den
                   /\ results.needs_refactoring \in {<<>>, <<TRUE>>}

\* The document of 1200 lines: scored 50, and needs_refactoring answered.
C15_Witness ==
    /\ args = [lines |-> 1200, functions |-> 0, classes |-> 0, imports |-> 0]
    /\ results.metrics # <<>>
    /\ results.metrics[1].complexity_score = Percent(50, 1)
    /\ results.needs_refactoring = <<TRUE>>

\* C16: when the manifest is missing or cannot be parsed, the construction
\* of the engine does not fail: the engine has an empty manifest and an
\* empty file index, a warning is printed, and a following analyze_impact
\* returns a report without components, single points of failure and
\* critical paths.
C16_ManifestFailureTolerated ==
    (manifest_path \in {"missing", "unparseable"} /\ phase # "edit") =>
        /\ phase = "ready"
        /\ manifest = <<>>
        /\ files = <<>>
        /\ Contains(output, ManifestWarning)
        /\ ~Contains(output, InitFailure)
        /\ report # NoReport =>
               /\ graph = <<>>
               /\ report.components = <<>>
               /\ report.single_points_of_failure = <<>>
               /\ report.critical_paths = <<>>

\* C17: analyze_impact leaves the manifest of the engine unchanged and builds
\* the dependents lists anew on every call: a call on an engine that has
\* returned a report returns an equal report, and the dependents of the
\* graph it builds are those of the graph built before.
C17_AnalyzeImpactRepeatable ==
    [][phase = "ready" =>
           /\ manifest' = manifest
           /\ report # NoReport => (report' = report /\ graph' = graph)
           /\ previous' # NoReport => previous' = report']_vars

\* analyze_impact has been called twice on a manifest with a dependency
\* between two nodes.
C17_Witness ==
    /\ phase = "ready"
    /\ previous # NoReport
    /\ previous = report
    /\ \E c \in 1..Len(report.components) :
           report.components[c].direct_dependents # <<>>

\* C18: the critical_paths list of _find_critical_paths holds only chains
\* traced from nodes without declared dependencies; the length of an entry
\* is the number of nodes of its chain and at least 3; the entries are in
\* non-increasing order of length; there are at most 5 of them.
C18_CriticalPaths ==
    report # NoReport =>
        LET critical_paths == report.critical_paths
        IN  /\ Len(critical_paths) <= 5
            /\ \A e \in 1..Len(critical_paths) :
                   LET entry == critical_paths[e]
                   IN  /\ entry.length = Len(entry.chain)
                       /\ entry.length >= 3
                       /\ \E k \in 1..Len(graph) :
                              /\ graph[k].path = entry.chain[1]
                              /\ graph[k].dependencies = <<>>
                              /\ entry.chain = trace_dependency_chain(graph[k].path, graph, {})
            /\ \A e \in 1..(Len(critical_paths) - 1) :
                   critical_paths[e].length >= critical_paths[e + 1].length

\* A graph with a chain of three nodes, 3 -> 2 -> 1, whose last node has
\* no declared dependencies.
C18_Witness ==
    /\ report # NoReport
    /\ Len(graph) = 3
    /\ graph[1].dependencies = <<>>
    /\ graph[2].dependencies = <<graph[1].path>>
    /\ graph[3].dependencies = <<graph[2].path>>
    /\ Len(trace_dependency_chain(graph[3].path, graph, {})) = 3

\* C24: for every manifest, the chain _find_critical_paths traces from each
\* node without declared dependencies is that node alone, of length 1, so
\* the test for a length of 3 removes it and the critical_paths of
\* analyze_impact is empty.
C24_NoCriticalPaths ==
    report # NoReport =>
        /\ \A k \in 1..Len(graph) :
               graph[k].dependencies = <<>> =>
                   trace_dependency_chain(graph[k].path, graph, {}) = <<graph[k].path>>
        /\ report.critical_paths = <<>>

\* The report of a graph where two nodes depend, one after the other, on a
\* node without declared dependencies.
C24_Witness ==
    /\ report # NoReport
    /\ report.critical_paths = <<>>
    /\ \E a, b, c \in 1..Len(graph) :
           /\ graph[a].dependencies = <<>>
           /\ graph[a].dependents = <<graph[b].path>>
           /\ graph[b].dependencies = <<graph[a].path>>
           /\ graph[b].dependents = <<graph[c].path>>
           /\ a # b /\ b # c /\ a # c

\* C25: when the manifest declares a path more than once, the graph has one
\* node for that path, and the node carries the importance, the dependencies
\* and the external dependencies of the first item that declares it.
C25_FirstOccurrenceWins ==
    report # NoReport =>
        \A i \in 1..Len(manifest) :
            (\A h \in 1..(i - 1) : manifest[h].path # manifest[i].path) =>
                /\ Cardinality({k \in 1..Len(graph) : graph[k].path = manifest[i].path}) = 1
                /\ \A k \in 1..Len(graph) :
                       graph[k].path = manifest[i].path =>
                           /\ graph[k].importance =
                                  (IF manifest[i].importance = NoKey
                                   THEN "medium" ELSE manifest[i].importance)
                           /\ graph[k].dependencies = manifest[i].connects_to
                           /\ graph[k].external_deps = manifest[i].dependencies

\* C26: the blast radius of a node is the number of components that depend
\* on it directly, that is the number of distinct nodes of the graph whose
\* declared dependencies contain the node, also when a component lists the
\* same target more than once.
C26_BlastRadiusCountsComponents ==
    report # NoReport =>
        /\ \A k \in 1..Len(graph) :
               blast_radius(graph[k]) =
                   Cardinality({d \in 1..Len(graph) :
                                   Contains(graph[d].dependencies, graph[k].path)})
        /\ \A c \in 1..Len(report.components) :
               report.components[c].blast_radius =
                   Cardinality({d \in 1..Len(graph) :
                                   Contains(graph[d].dependencies, report.components[c].path)})

(***************************************************************************)
(* Properties of the coordinator.  Every action of the coordinator sets    *)
(* returned to its own call, so a step that ends with returned' a call of  *)
(* execute_delegation is a step of ExecuteDelegation.                      *)
(***************************************************************************)
\* phrase in error, for an error of the model, the list of the parts of its
\* f-string.
ErrorHolds(error, phrase) ==
    /\ ~error.none
    /\ \E i \in 1..Len(error.value) :
           \/ phrase = "Human approval required"
                  /\ error.value[i] = "Human approval required: "
           \/ phrase = "not registered" /\ error.value[i] = "' not registered"

\* 'launch' in the request, whatever the case of its letters.
HoldsLaunch(user_request) ==
    \E i \in 1..Len(user_request) : "launch" \in KeywordsIn(Lower(user_request[i]))

\* C19: execute_delegation on a decision that requires human approval
\* returns a failed AgentResult whose error contains 'Human approval
\* required', does not call the execute of the target agent, registered or
\* not, and leaves results_history as it is; process_request on a request
\* that contains 'launch', which is routed to campaign_design, does not run
\* the campaign_design agent.
C19_ApprovalBlocksExecution ==
    [][/\ (returned'.call = "execute_delegation"
              /\ returned'.decision.requires_human_approval) =>
              /\ ~returned'.value.success
              /\ ErrorHolds(returned'.value.error, "Human approval required")
              /\ returned'.decision.target_agent \notin Entries(executed')
              /\ results_history' = results_history
       /\ (returned'.call = "process_request" /\ HoldsLaunch(returned'.request)) =>
              /\ \E k \in 1..Len(returned'.value.delegations) :
                     /\ returned'.value.delegations[k].agent = "campaign_design"
                     /\ returned'.value.delegations[k].requires_approval
              /\ "campaign_design" \notin Entries(executed')
              /\ \A k \in 1..Len(results_history') :
                     results_history'[k].agent_name = "campaign_design" =>
                         k <= Len(results_history) /\ results_history[k] = results_history'[k]
      ]_vars

\* execute_delegation has returned for a decision that requires approval,
\* with the target agent registered and a result recorded earlier.
C19_Witness ==
    /\ returned.call = "execute_delegation"
    /\ returned.decision.requires_human_approval
    /\ Get(specialized_agents, returned.decision.target_agent) = "returns"
    /\ results_history # <<>>
    /\ executed = <<>>

\* C20: execute_delegation on a decision that does not require approval and
\* whose target agent is not registered returns a failed AgentResult whose
\* error contains 'not registered', raises nothing (it returns the result
\* for the target), runs no agent and leaves specialized_agents,
\* delegation_history and results_history as they are.
C20_UnregisteredAgentFails ==
    [][(/\ returned'.call = "execute_delegation"
        /\ Get(specialized_agents, returned'.decision.target_agent) = NoAgent
        /\ ~returned'.decision.requires_human_approval) =>
           /\ returned'.value.agent_name = returned'.decision.target_agent
           /\ ~returned'.value.success
           /\ ErrorHolds(returned'.value.error, "not registered")
           /\ executed' = <<>>
           /\ UNCHANGED <<specialized_agents, delegation_history, results_history>>
      ]_vars

\* The statement for every decision whose target is not registered, the
\* ones that require approval included: the error contains 'not registered'.
C20_AnyUnregisteredDecision ==
    (/\ returned.call = "execute_delegation"
     /\ Get(specialized_agents, returned.decision.target_agent) = NoAgent) =>
        /\ ~returned.value.success
        /\ ErrorHolds(returned.value.error, "not registered")

\* execute_delegation has returned for 'nonexistent_agent', with an agent
\* registered and a delegation and a result in the histories.
C20_Witness ==
    /\ returned.call = "execute_delegation"
    /\ returned.decision.target_agent = "nonexistent_agent"
    /\ ~returned.decision.requires_human_approval
    /\ delegation_history # <<>>
    /\ results_history # <<>>

\* The position of the first item of the manifest that declares the path.
FirstDeclared(path) ==
    CHOOSE i \in 1..Len(manifest) :
        /\ manifest[i].path = path
        /\ \A j \in 1..(i - 1) : manifest[j].path # path

\* C12: the components list of analyze_impact holds every node of the graph
\* exactly once, with the node's criticality score, in non-increasing order
\* of the score, and two nodes of equal score in the order in which their
\* paths are declared in the manifest.
C12_ComponentsSorted ==
    report # NoReport =>
        LET components == report.components
        IN  /\ Len(components) = Len(graph)
            /\ \A k \in 1..Len(graph) :
                   /\ Cardinality({c \in 1..Len(components) :
                                      components[c].path = graph[k].path}) = 1
                   /\ \A c \in 1..Len(components) :
                          components[c].path = graph[k].path =>
                              components[c].criticality_score = criticality_score(graph[k])
            /\ \A c \in 1..(Len(components) - 1) :
                   components[c].criticality_score >= components[c + 1].criticality_score
            /\ \A c, d \in 1..Len(components) :
                   (c < d /\ components[c].criticality_score = components[d].criticality_score)
                       => FirstDeclared(components[c].path) < FirstDeclared(components[d].path)

\* Three nodes: the one declared last has the highest score and the two
\* others are tied.
C12_Witness ==
    /\ report # NoReport
    /\ Len(report.components) = 3
    /\ report.components[1].path = graph[3].path
    /\ report.components[2].path = graph[1].path
    /\ report.components[3].path = graph[2].path
    /\ report.components[2].criticality_score = report.components[3].criticality_score

\* The parts a mitigation is joined from, in the order of the checks.
MitigationParts ==
    <<"Implement circuit breaker pattern", "Add caching layer",
      "Set up redundancy/failover">>

\* The phrase is a substring of one of the parts joined.
Mentions(strategies, phrase) ==
    \E i \in 1..Len(strategies) :
        \/ phrase = "circuit breaker" /\ strategies[i] = MitigationParts[1]
        \/ phrase = "caching layer" /\ strategies[i] = MitigationParts[2]
        \/ phrase = "redundancy/failover" /\ strategies[i] = MitigationParts[3]

\* C11: _suggest_mitigation returns the suggestions that apply, joined in the
\* order circuit breaker (blast radius >= 5), caching layer ('BigQuery' among
\* the external dependencies), redundancy/failover (importance critical), and
\* "Monitor closely" exactly when none applies; a node that is flagged as a
\* single point of failure (critical, blast radius >= 5) gets a string that
\* contains "circuit breaker" and "redundancy/failover".
C11_MitigationOrder ==
    results.mitigation # <<>> =>
        LET dependents == results.mitigation[1]
            external_deps == results.mitigation[2]
            strategies == results.mitigation[3]
            applies == <<dependents >= 5,
                         \E i \in 1..Len(external_deps) : external_deps[i] = "BigQuery",
                         args.importance = "critical">>
            applicable == {k \in 1..3 : applies[k]}
        IN  /\ applicable # {} =>
                   /\ Len(strategies) = Cardinality(applicable)
                   /\ \A i \in 1..Len(strategies) : \E k \in applicable :
                          /\ strategies[i] = MitigationParts[k]
                          /\ Cardinality({l \in applicable : l < k}) = i - 1
            /\ strategies = <<"Monitor closely">> <=> applicable = {}
            /\ (dependents >= 5 /\ args.importance = "critical") =>
                   /\ Mentions(strategies, "circuit breaker")
                   /\ Mentions(strategies, "redundancy/failover")

\* The critical node with 6 dependents and BigQuery among its external
\* dependencies: all three suggestions.
C11_Witness ==
    /\ args.importance = "critical"
    /\ results.mitigation # <<>>
    /\ results.mitigation[1] = 6
    /\ results.mitigation[2] = <<"Salesforce", "BigQuery">>
    /\ Len(results.mitigation[3]) = 3

(***************************************************************************)
(* Properties of determine_delegation.                                     *)
(***************************************************************************)
\* The agents whose keyword list has a keyword inside the lower-cased request.
MatchedAgents(user_request) ==
    {agent \in AgentNames :
        AnyKeyword(agent, [i \in 1..Len(user_request) |-> Lower(user_request[i])])}

\* The place of an agent in the fixed order.
OrderOf(agent) == CHOOSE k \in 1..Len(AgentOrder) : AgentOrder[k] = agent

\* C21: for every request, determine_delegation returns at least one
\* decision; when some keyword group matches, the decisions are one per
\* matching agent and none for any other, at most one per agent, in the order
\* data_intelligence, predictive_insights, content_generation,
\* campaign_design, performance_optimization; when no group matches there is
\* exactly one decision, for data_intelligence.
C21_DelegationDecisions ==
    returned.call = "determine_delegation" =>
        LET decisions == returned.value
            matched == MatchedAgents(returned.request)
        IN  /\ Len(decisions) >= 1
            /\ \A k \in 1..Len(decisions) : decisions[k].target_agent \in AgentNames
            /\ \A k \in 1..(Len(decisions) - 1) :
                   OrderOf(decisions[k].target_agent) < OrderOf(decisions[k + 1].target_agent)
            /\ matched # {} =>
                   {decisions[k].target_agent : k \in 1..Len(decisions)} = matched
            /\ matched = {} =>
                   /\ Len(decisions) = 1
                   /\ decisions[1].target_agent = "data_intelligence"

\* determine_delegation has returned four decisions, two of them for the one
\* word 'leads'.
C21_Witness ==
    /\ returned.call = "determine_delegation"
    /\ Len(returned.value) = 4
    /\ Contains(returned.request, "leads")
    /\ ~Contains(returned.request, "campaign")

(***************************************************************************)
(* Properties of aggregate_results.                                        *)
(***************************************************************************)
\* The results of a list that failed, as positions in the list.
FailedAt(agent_results) == {k \in 1..Len(agent_results) : ~agent_results[k].success}

\* The position of the n-th failed result.
NthFailed(agent_results, n) ==
    CHOOSE k \in FailedAt(agent_results) :
        Cardinality({j \in FailedAt(agent_results) : j <= k}) = n

\* The successful results with a payload that is neither None nor empty.
WithPayload(agent_results) ==
    {k \in 1..Len(agent_results) :
        /\ agent_results[k].success
        /\ ~agent_results[k].result.none
        /\ agent_results[k].result.value # <<>>}

\* C22: aggregate_results returns success true exactly when every given
\* result succeeded; errors holds the error of each failed result, one entry
\* per failure, in input order; insights holds, under its agent name, the
\* result of each successful result with a non-empty payload, and nothing
\* else.
C22_AggregateResults ==
    returned.call = "aggregate_results" =>
        LET given == returned.results
            aggregated == returned.value
        IN  /\ aggregated.success = (FailedAt(given) = {})
            /\ Len(aggregated.errors) = Cardinality(FailedAt(given))
            /\ \A n \in 1..Len(aggregated.errors) :
                   aggregated.errors[n] = given[NthFailed(given, n)].error
            /\ \A k \in WithPayload(given) :
                   \E e \in 1..Len(aggregated.insights) :
                       /\ aggregated.insights[e].agent_name = given[k].agent_name
                       /\ aggregated.insights[e].result = given[k].result.value
            /\ \A e \in 1..Len(aggregated.insights) :
                   \E k \in WithPayload(given) :
                       /\ aggregated.insights[e].agent_name = given[k].agent_name
                       /\ aggregated.insights[e].result = given[k].result.value

(***************************************************************************)
(* Properties of _trace_dependency_chain.                                  *)
(***************************************************************************)
\* The declared dependencies of a node of the graph.
DependenciesOf(g, path) == g[DictIndex(g, path)].dependencies

\* The chains of the graph from start that avoid the nodes in visited: lists
\* of nodes of the graph without a repeated node, each node a declared
\* dependency of the one before it.
SimpleChains(g, start, visited) ==
    {c \in UNION {[1..n -> NodePaths(g)] : n \in 1..Len(g)} :
        /\ c[1] = start
        /\ \A k \in 1..Len(c) : c[k] \notin visited
        /\ \A j, k \in 1..Len(c) : c[j] = c[k] => j = k
        /\ \A k \in 1..(Len(c) - 1) : Contains(DependenciesOf(g, c[k]), c[k + 1])}

\* The length of the longest of them, 0 when there is none.
LongestFrom(g, start, visited) ==
    LET lengths == {Len(c) : c \in SimpleChains(g, start, visited)}
    IN  IF lengths = {} THEN 0 ELSE CHOOSE n \in lengths : \A m \in lengths : m <= n

\* C23: on every graph, cyclic or not, and for every start node present in
\* it, _trace_dependency_chain returns a chain that begins with the start
\* node, repeats no node, follows a declared dependency edge between each
\* two consecutive nodes, and is as long as the longest such chain of graph
\* nodes from the start; each node of the chain is followed by the first
\* listed dependency among those that give the longest continuation.
C23_LongestChain ==
    (traced.called /\ DictIndex(graph, traced.start) # 0) =>
        LET chain == traced.chain
        IN  /\ chain \in SimpleChains(graph, traced.start, {})
            /\ Len(chain) = LongestFrom(graph, traced.start, {})
            /\ \A k \in 1..Len(chain) :
                   LET visited == {chain[j] : j \in 1..k}
                       deps == DependenciesOf(graph, chain[k])
                       best == {j \in 1..Len(deps) :
                                   \A i \in 1..Len(deps) :
                                       LongestFrom(graph, deps[i], visited)
                                           <= LongestFrom(graph, deps[j], visited)}
                       first == CHOOSE j \in best : \A i \in best : j <= i
                   IN  IF k < Len(chain)
                       THEN chain[k + 1] = deps[first]
                       ELSE \A j \in 1..Len(deps) : LongestFrom(graph, deps[j], visited) = 0

\* A chain was traced from node 1 of a graph with cycles, where the two
\* dependencies of node 1 give sub-chains of the same length and the first
\* was kept.
C23_Witness ==
    /\ traced.called
    /\ traced.start = 1
    /\ DependenciesOf(graph, 1) = <<2, 3>>
    /\ DependenciesOf(graph, 2) = <<1>>
    /\ DependenciesOf(graph, 3) = <<1>>
    /\ traced.chain = <<1, 2>>

(***************************************************************************)
(* Properties of _extract_code_blocks.                                     *)
(***************************************************************************)
\* The number of lines of a content: a content that ends with a newline has
\* an empty last part, which is not a line.
Lines(content) ==
    IF content[Len(content)] = <<>> THEN Len(content) - 1 ELSE Len(content)

\* C27: every fragment _extract_code_blocks returns has end_line >=
\* start_line and a content of at least 3 lines; a fenced block whose
\* content has fewer than 3 lines, two newline-terminated lines for one, is
\* not among the fragments.
C27_ShortFragmentsDiscarded ==
    \A i \in 1..Len(all_blocks) :
        /\ all_blocks[i].end_line >= all_blocks[i].start_line
        /\ Lines(all_blocks[i].content) >= 3

(***************************************************************************)
(* Properties of the coordinator when an agent raises, and of its          *)
(* histories.                                                              *)
(***************************************************************************)
\* The delegations of a response that reach an agent: no approval is
\* required and the agent is registered.
Runnable(delegations) ==
    SelectSeq(delegations,
        LAMBDA d : ~d.requires_approval /\ Get(specialized_agents, d.agent) # NoAgent)

\* C28: when the execute of a registered agent raises an exception,
\* execute_delegation returns a failed AgentResult for the agent that
\* carries the text of the exception, and records nothing; process_request
\* goes on with the decisions that follow, in the order of the decisions,
\* and returns its response, with one result counted for every decision.
C28_RaisingAgent ==
    [][/\ (/\ returned'.call = "execute_delegation"
           /\ ~returned'.decision.requires_human_approval
           /\ Get(specialized_agents, returned'.decision.target_agent) = "raises") =>
              /\ returned'.value.agent_name = returned'.decision.target_agent
              /\ ~returned'.value.success
              /\ returned'.value.error = Some(<<"execute failed">>)
              /\ executed' = <<returned'.decision.target_agent>>
              /\ results_history' = results_history
       /\ returned'.call = "process_request" =>
              LET response == returned'.value
                  runnable == Runnable(response.delegations)
                  raising == {k \in 1..Len(runnable) :
                                 Get(specialized_agents, runnable[k].agent) = "raises"}
              IN  /\ executed' = [k \in 1..Len(runnable) |-> runnable[k].agent]
                  /\ response.metadata.successful_delegations
                         + response.metadata.failed_delegations = Len(response.delegations)
                  /\ response.metadata.successful_delegations
                         = Len(runnable) - Cardinality(raising)
                  /\ raising # {} =>
                         /\ ~response.results.success
                         /\ \E e \in 1..Len(response.results.errors) :
                                response.results.errors[e] = Some(<<"execute failed">>)
      ]_vars

\* process_request has returned for a request with two decisions: the agent
\* of the first raised, the agent of the second ran after it and succeeded.
C28_Witness ==
    /\ returned.call = "process_request"
    /\ Len(returned.value.delegations) = 2
    /\ Get(specialized_agents, returned.value.delegations[1].agent) = "raises"
    /\ Get(specialized_agents, returned.value.delegations[2].agent) = "returns"
    /\ executed = <<returned.value.delegations[1].agent, returned.value.delegations[2].agent>>
    /\ returned.value.metadata.successful_delegations = 1
    /\ returned.value.metadata.failed_delegations = 1

\* The success_rate of the stats is the number given.
RateIs(stats, number) ==
    /\ "success_rate" \in DOMAIN stats
    /\ stats.success_rate.num = number * stats.success_rate.den

\* C29 as stated: every entry of results_history is a successful result, and
\* the success_rate get_delegation_stats reports is 1.0 when a result is
\* recorded and 0 otherwise.
C29_SuccessRate ==
    /\ \A k \in 1..Len(results_history) : results_history[k].success
    /\ returned.call = "get_delegation_stats" =>
           IF results_history # <<>> THEN RateIs(returned.value, 1)
           ELSE RateIs(returned.value, 0)

\* C29, with the case get_delegation_stats sets apart: every entry of
\* results_history is a successful result; when delegation_history is not
\* empty, the success_rate reported is 1.0 when a result is recorded and 0
\* otherwise; when delegation_history is empty, the stats are
\* total_delegations = 0 alone and no success_rate is reported, whatever
\* results_history holds.
C29_OnlySuccessesRecorded ==
    /\ \A k \in 1..Len(results_history) : results_history[k].success
    /\ returned.call = "get_delegation_stats" =>
           IF delegation_history = <<>>
           THEN returned.value = [total_delegations |-> 0]
           ELSE IF results_history # <<>> THEN RateIs(returned.value, 1)
           ELSE RateIs(returned.value, 0)

\* get_delegation_stats has reported a success rate of 1.0 on a coordinator
\* whose history holds a decision that was blocked for approval and whose
\* data_intelligence agent raises.
C29_Witness ==
    /\ returned.call = "get_delegation_stats"
    /\ RateIs(returned.value, 1)
    /\ results_history # <<>>
    /\ \E k \in 1..Len(delegation_history) : delegation_history[k].requires_human_approval
    /\ Get(specialized_agents, "data_intelligence") = "raises"

\* The total_delegations get_delegation_stats reports in the state.
StatsTotal == get_delegation_stats(delegation_history, results_history).total_delegations

\* C30: in every response of process_request, metadata.total_delegations is
\* the number of entries of delegations and the sum of
\* successful_delegations and failed_delegations; each process_request call
\* adds its total_delegations to the total_delegations get_delegation_stats
\* reports, so that after process_request calls alone that total is the sum
\* of theirs; no call makes it smaller.
C30_DelegationTotals ==
    [][/\ returned'.call = "process_request" =>
              LET metadata == returned'.value.metadata
              IN  /\ metadata.total_delegations = Len(returned'.value.delegations)
                  /\ metadata.total_delegations =
                         metadata.successful_delegations + metadata.failed_delegations
                  /\ StatsTotal' = StatsTotal + metadata.total_delegations
       /\ returned'.call = "get_delegation_stats" =>
              returned'.value.total_delegations = StatsTotal
       /\ StatsTotal' >= StatsTotal
      ]_vars

\* A second request has been processed: its response counts one delegation
\* and the stats count two.
C30_Witness ==
    /\ returned.call = "process_request"
    /\ returned.value.metadata.total_delegations = 1
    /\ StatsTotal = 2
    /\ \A k \in 1..Len(delegation_history) :
           delegation_history[k].task_description[1] = "General query: "

====
